---- MODULE Spec2Model ----
(***************************************************************************)
(* Model of the libratone-rs device manager (src/src/device.rs), of the    *)
(* command catalog it decodes with (src/src/commands.rs) and of the        *)
(* packet type it sends (src/src/protocol.rs).                             *)
(*                                                                         *)
(* Every handler of the manager runs with the manager's mutex held from    *)
(* its first statement to its last, so a handler is one action.  The       *)
(* variable `last` is the record of the handler that holds the mutex: its  *)
(* arguments, its result, the packets it handed to the send socket, the    *)
(* events it published and the order of its effects.  Unlock models the    *)
(* guard going out of scope.                                               *)
(*                                                                         *)
(* Byte strings are sequences of numbers 0..255, text is a sequence of     *)
(* code points, Option<T> is a sequence of length 0 (None) or 1 (Some).    *)
(***************************************************************************)
EXTENDS Integers, Sequences, FiniteSets, TLC

(***************************************************************************)
(* Bounds of the model.                                                    *)
(***************************************************************************)
MaxChanges == 3
MaxListeners == 1
\* The event bus on its own: events published, subscribers.
MaxPublished == 2
MaxSubscribers == 3
\* The worker threads: failed setups and loop iterations, all workers together.
MaxFailures == 2
MaxIterations == 2

(***************************************************************************)
(* Option and Result.                                                      *)
(***************************************************************************)
None == <<>>
Some(v) == <<v>>
IsSome(o) == Len(o) = 1
Unwrap(o) == o[1]

Ok(v) == [ok |-> TRUE, val |-> <<v>>]
Err == [ok |-> FALSE, val |-> <<>>]

(***************************************************************************)
(* protocol.rs: ports and the packet.                                      *)
(***************************************************************************)
CMD_SEND_PORT == 7777
CMD_RESP_PORT == 7778
NOTIF_RECV_PORT == 3333
NOTIF_ACK_PORT == 3334

Packet(command_type, command, command_data) ==
    [command_type |-> command_type, command |-> command, command_data |-> command_data]

HEADER_LEN == 10
U8_RANGE == 256

\* Faulty variant: the header's command field is written low byte first.
Packet_data_low_byte_first(packet) ==
    LET data_len == IF IsSome(packet.command_data) THEN Len(Unwrap(packet.command_data)) ELSE 0
    IN  <<170, 170, packet.command_type,
          packet.command % U8_RANGE, (packet.command \div U8_RANGE) % U8_RANGE,
          0, 18, 52,
          (data_len \div U8_RANGE) % U8_RANGE, data_len % U8_RANGE>>
        \o (IF IsSome(packet.command_data) THEN Unwrap(packet.command_data) ELSE <<>>)

\* Packet::data: the header of ten bytes (0xaa 0xaa, the type, the command
\* high byte first, 0x00 0x12 0x34, the low 16 bits of the payload's length
\* high byte first), then the payload.
Packet_data(packet) ==
    LET data_len == IF IsSome(packet.command_data) THEN Len(Unwrap(packet.command_data)) ELSE 0
    IN  <<170, 170, packet.command_type,
          (packet.command \div U8_RANGE) % U8_RANGE, packet.command % U8_RANGE,
          0, 18, 52,
          (data_len \div U8_RANGE) % U8_RANGE, data_len % U8_RANGE>>
        \o (IF IsSome(packet.command_data) THEN Unwrap(packet.command_data) ELSE <<>>)

\* Faulty variant: a declared length of zero yields a present, empty payload.
Packet_parse_empty_is_some(data) ==
    IF Len(data) < HEADER_LEN THEN Err
    ELSE LET data_len == data[9] * U8_RANGE + data[10]
         IN  IF HEADER_LEN + data_len # Len(data) THEN Err
             ELSE Ok(Packet(data[3], data[4] * U8_RANGE + data[5],
                            Some(SubSeq(data, HEADER_LEN + 1, Len(data)))))

\* Faulty variant: the declared length is read low byte first.
Packet_parse_length_low_byte_first(data) ==
    IF Len(data) < HEADER_LEN THEN Err
    ELSE LET data_len == data[10] * U8_RANGE + data[9]
         IN  IF HEADER_LEN + data_len # Len(data) THEN Err
             ELSE Ok(Packet(data[3], data[4] * U8_RANGE + data[5],
                            IF data_len > 0
                            THEN Some(SubSeq(data, HEADER_LEN + 1, Len(data)))
                            ELSE None))

\* Packet::parse.  data[k] of the source is data[k + 1] here.
Packet_parse(data) ==
    IF Len(data) < HEADER_LEN THEN Err
    ELSE LET data_len == data[9] * U8_RANGE + data[10]
         IN  IF HEADER_LEN + data_len # Len(data) THEN Err
             ELSE Ok(Packet(data[3], data[4] * U8_RANGE + data[5],
                            IF data_len > 0
                            THEN Some(SubSeq(data, HEADER_LEN + 1, Len(data)))
                            ELSE None))

(***************************************************************************)
(* commands.rs: the command catalog.                                       *)
(***************************************************************************)
COMMAND_TYPE_FETCH == 1
COMMAND_TYPE_SET == 2

Power_NOTIFY_ID == 15
DeviceName_GET_COMMAND_ID == 90
DeviceName_GET_REPLY_COMMAND_ID == DeviceName_GET_COMMAND_ID
DeviceName_SET_COMMAND_ID == 90
Volume_GET_COMMAND_ID == 64
Volume_GET_REPLY_COMMAND_ID == Volume_GET_COMMAND_ID
Volume_SET_COMMAND_ID == 64
Volume_NOTIFY_ID == 64
PlayControl_GET_COMMAND_ID == 51
PlayControl_GET_REPLY_COMMAND_ID == PlayControl_GET_COMMAND_ID
PlayControl_SET_COMMAND_ID == 40
PlayControl_NOTIFY_ID == 51
PlayInfo_SET_COMMAND_ID == 277
PlayInfo_GET_COMMAND_ID == 278
PlayInfo_GET_REPLY_COMMAND_ID == PlayInfo_GET_COMMAND_ID
Capabilities_GET_COMMAND_ID == 281
PowerMode_GET_COMMAND_ID == 14
ChargingState_GET_COMMAND_ID == 1284
ChargingState_GET_REPLY_COMMAND_ID == ChargingState_GET_COMMAND_ID
BatteryLevel_GET_COMMAND_ID == 256
\* Faulty variant: the reply id left at its default, the fetch id.
BatteryLevel_reply_id_defaulted == BatteryLevel_GET_COMMAND_ID
BatteryLevel_GET_REPLY_COMMAND_ID == 257
BatteryLevel_NOTIFY_ID == 258
FirmwareUpdate_GET_COMMAND_ID == 65
PreChannel_SET_COMMAND_ID == 276
PreChannel_GET_COMMAND_ID == 275
HELLO_COMMAND_ID == 3
ACK_COMMAND_ID == 2

\* The bytes a UTF-8 sequence starting with the byte lead may have second:
\* 0x80..0xBF, narrowed after 0xE0, 0xED, 0xF0 and 0xF4.
utf8_second_min(lead) == IF lead = 224 THEN 160 ELSE IF lead = 240 THEN 144 ELSE 128
utf8_second_max(lead) == IF lead = 237 THEN 159 ELSE IF lead = 244 THEN 143 ELSE 191
\* The length of the sequence the byte lead starts; 0 when it starts none.
utf8_char_width(lead) ==
    IF lead < 128 THEN 1
    ELSE IF lead >= 194 /\ lead <= 223 THEN 2
    ELSE IF lead >= 224 /\ lead <= 239 THEN 3
    ELSE IF lead >= 240 /\ lead <= 244 THEN 4
    ELSE 0
utf8_is_continuation(byte) == byte >= 128 /\ byte <= 191

\* The number of bytes at the front of data that are a whole sequence or
\* the longest start of one.
utf8_valid_up_to(data) ==
    LET width == utf8_char_width(data[1])
        second_ok == Len(data) >= 2 /\ data[2] >= utf8_second_min(data[1])
                                   /\ data[2] <= utf8_second_max(data[1])
        third_ok == Len(data) >= 3 /\ utf8_is_continuation(data[3])
        fourth_ok == Len(data) >= 4 /\ utf8_is_continuation(data[4])
    IN  IF width <= 1 \/ ~second_ok THEN 1
        ELSE IF width = 2 \/ ~third_ok THEN 2
        ELSE IF width = 3 \/ ~fourth_ok THEN 3
        ELSE 4

\* The code point of the sequence of width bytes at the front of data.
utf8_code_point(data, width) ==
    IF width = 1 THEN data[1]
    ELSE IF width = 2 THEN (data[1] - 192) * 64 + (data[2] - 128)
    ELSE IF width = 3 THEN (data[1] - 224) * 4096 + (data[2] - 128) * 64 + (data[3] - 128)
    ELSE (data[1] - 240) * 262144 + (data[2] - 128) * 4096 + (data[3] - 128) * 64
         + (data[4] - 128)

\* String::from_utf8_lossy, to the string's code points: a well-formed
\* sequence is its code point; a byte that starts none, and the longest
\* start of a sequence that is cut short, becomes one U+FFFD.
REPLACEMENT_CHARACTER == 65533
RECURSIVE from_utf8_lossy(_)
from_utf8_lossy(data) ==
    IF Len(data) = 0 THEN <<>>
    ELSE LET width == utf8_char_width(data[1])
             taken == utf8_valid_up_to(data)
         IN  (IF width > 0 /\ taken = width
              THEN <<utf8_code_point(data, width)>>
              ELSE <<REPLACEMENT_CHARACTER>>)
             \o (CHOOSE text \in {from_utf8_lossy(rest) :
                                    rest \in {SubSeq(data, taken + 1, Len(data))}} : TRUE)

\* char::encode_utf8: the bytes of one code point.
encode_utf8(c) ==
    IF c < 128 THEN <<c>>
    ELSE IF c < 2048 THEN <<192 + (c \div 64), 128 + (c % 64)>>
    ELSE IF c < 65536 THEN <<224 + (c \div 4096), 128 + ((c \div 64) % 64), 128 + (c % 64)>>
    ELSE <<240 + (c \div 262144), 128 + ((c \div 4096) % 64), 128 + ((c \div 64) % 64),
           128 + (c % 64)>>

\* Faulty variant: one byte per code point, its low eight bits.
RECURSIVE String_as_bytes_one_byte_each(_)
String_as_bytes_one_byte_each(s) ==
    IF Len(s) = 0 THEN <<>>
    ELSE <<s[1] % 256>> \o String_as_bytes_one_byte_each(Tail(s))

\* str::as_bytes: the UTF-8 bytes of a string given as its code points.
RECURSIVE String_as_bytes(_)
String_as_bytes(s) ==
    IF Len(s) = 0 THEN <<>> ELSE encode_utf8(s[1]) \o String_as_bytes(Tail(s))

\* str::from_utf8: the characters of data, an error when data is not
\* well-formed UTF-8 throughout.
str_from_utf8(data) ==
    CHOOSE r \in {IF String_as_bytes(text) = data THEN Ok(text) ELSE Err :
                    text \in {from_utf8_lossy(data)}} : TRUE

IsDigit(c) == c >= 48 /\ c <= 57

\* The first index from i on whose byte is not in `bytes`, Len(s) + 1 when
\* there is none.
first_not_in(s, i, bytes) ==
    IF i > Len(s) THEN i
    ELSE CHOOSE j \in i..(Len(s) + 1) :
           /\ (j = Len(s) + 1 \/ s[j] \notin bytes)
           /\ \A k \in i..(j - 1) : s[k] \in bytes

\* The bytes of s from i on start with word.
starts_with(s, i, word) ==
    i + Len(word) - 1 <= Len(s) /\ SubSeq(s, i, i + Len(word) - 1) = word

\* The value of a hexadecimal digit, 16 for any other byte.
hex_digit(byte) ==
    IF byte >= 48 /\ byte <= 57 THEN byte - 48
    ELSE IF byte >= 97 /\ byte <= 102 THEN byte - 87
    ELSE IF byte >= 65 /\ byte <= 70 THEN byte - 55
    ELSE 16


RECURSIVE DigitsValue(_)
DigitsValue(s) ==
    IF Len(s) = 0 THEN 0
    ELSE 10 * DigitsValue(SubSeq(s, 1, Len(s) - 1)) + (s[Len(s)] - 48)

\* str::parse::<u8>: an optional '+', then one or more decimal digits whose
\* value fits 8 bits.
U8_MAX == 255
parse_u8(s) ==
    CHOOSE parsed \in
      {IF Len(digits) = 0 \/ (\E i \in 1..Len(digits) : ~IsDigit(digits[i]))
       THEN Err
       ELSE IF DigitsValue(digits) > U8_MAX THEN Err ELSE Ok(DigitsValue(digits)) :
         digits \in {IF Len(s) > 0 /\ s[1] = 43 THEN Tail(s) ELSE s}} : TRUE

\* u8::to_string().as_bytes(): the decimal digits, no sign, no leading zero.
RECURSIVE u8_to_string(_)
u8_to_string(n) ==
    IF n < 10 THEN <<48 + n>> ELSE Append(u8_to_string(n \div 10), 48 + (n % 10))

\* DeviceName::marshal_data: name.as_bytes().
DeviceName_marshal_data(name) == String_as_bytes(name)

DeviceName_unmarshal_data(data) == Ok(from_utf8_lossy(data))

VOLUME_MAX == 100
\* Volume::marshal_data panics above 100: the caller gets no value at all.
Volume_marshal_data(volume) ==
    IF volume > VOLUME_MAX
    THEN [panic |-> TRUE, bytes |-> <<>>]
    ELSE [panic |-> FALSE, bytes |-> u8_to_string(volume)]

Volume_unmarshal_data(data) ==
    CHOOSE parsed \in {parse_u8(text) : text \in {from_utf8_lossy(data)}} : TRUE

PlayControlCommands ==
    <<"Play", "Stop", "Pause", "Next", "Previous", "Toggle", "Mute", "Unmute">>

\* PlayControl::marshal_data: the verb's token PLAY, STOP, PAUSE, NEXT, PREV,
\* TOGGL, MUTE, UNMUTE as ASCII bytes.
PlayControl_marshal_data(cmd) ==
    CASE cmd = "Play" -> <<80, 76, 65, 89>>
      [] cmd = "Stop" -> <<83, 84, 79, 80>>
      [] cmd = "Pause" -> <<80, 65, 85, 83, 69>>
      [] cmd = "Next" -> <<78, 69, 88, 84>>
      [] cmd = "Previous" -> <<80, 82, 69, 86>>
      [] cmd = "Toggle" -> <<84, 79, 71, 71, 76>>
      [] cmd = "Mute" -> <<77, 85, 84, 69>>
      [] cmd = "Unmute" -> <<85, 78, 77, 85, 84, 69>>

PlayControl_unmarshal_data(data) ==
    IF Len(data) = 1 /\ data[1] >= 48 /\ data[1] <= 55
    THEN Ok(PlayControlCommands[data[1] - 47])
    ELSE Err

ChargingStates ==
    <<"Discharging", "PluggedInCharging", "PluggedInCharged", "PluggedInNotCharging">>

\* The commands whose request type is (): marshal_data gives no byte.
UNIT == "()"
ChargingState_marshal_data(unit) == <<>>
PowerMode_marshal_data(unit) == <<>>
FirmwareUpdate_marshal_data(unit) == <<>>

PowerMode_unmarshal_data(data) == Ok(from_utf8_lossy(data))
FirmwareUpdate_unmarshal_data(data) == Ok(from_utf8_lossy(data))

ChargingState_unmarshal_data(data) ==
    IF Len(data) = 1 /\ data[1] >= 48 /\ data[1] <= 51
    THEN Ok(ChargingStates[data[1] - 47])
    ELSE Err

BatteryLevel_unmarshal_data(data) ==
    CHOOSE parsed \in {parse_u8(text) : text \in {from_utf8_lossy(data)}} : TRUE

(***************************************************************************)
(* discovery_reply.rs: DiscoveryReply::parse, on the bytes of a datagram.  *)
(***************************************************************************)
\* "NOTIFY * HTTP/1.1 \r\n" and "NOTIFY * HTTP/1.1\r\n"
BROKEN_NOTIFY_PREFIX == <<78, 79, 84, 73, 70, 89, 32, 42, 32, 72, 84, 84, 80, 47, 49, 46, 49, 32, 13, 10>>
FIXED_NOTIFY_PREFIX == <<78, 79, 84, 73, 70, 89, 32, 42, 32, 72, 84, 84, 80, 47, 49, 46, 49, 13, 10>>

\* httparse's bytes of a token (a method, a header name): letters, digits
\* and !#$%&'*+-.^_`|~; of a request target: the visible ASCII bytes and
\* the bytes from 0x80 (the target as a whole must then be UTF-8); of a
\* header value: these, the space and the tab.
HTTP_TOKEN ==
    {33, 35, 36, 37, 38, 39, 42, 43, 45, 46, 94, 95, 96, 124, 126}
    \cup (48..57) \cup (65..90) \cup (97..122)
HTTP_URI == (33..126) \cup (128..255)
HTTP_HEADER_VALUE == {9} \cup (32..126) \cup (128..255)
HTTP_VERSIONS == {<<72, 84, 84, 80, 47, 49, 46, 48>>, <<72, 84, 84, 80, 47, 49, 46, 49>>}

\* What a step of httparse gives: it is done and the next byte is at
\* `next`, the input ends before it is done, or the input is not HTTP.
HttpLine(status, method, path, next) ==
    [status |-> status, method |-> method, path |-> path, next |-> next]

\* skip_empty_lines: the index after the CRLFs and LFs in front of the
\* request line; 0 when the input ends there, -1 on a CR without LF.
RECURSIVE httparse_skip_empty_lines(_, _)
httparse_skip_empty_lines(s, i) ==
    IF i > Len(s) THEN 0
    ELSE IF s[i] = 13
    THEN (IF i + 1 > Len(s) THEN 0
          ELSE IF s[i + 1] = 10 THEN httparse_skip_empty_lines(s, i + 2)
          ELSE 0 - 1)
    ELSE IF s[i] = 10 THEN httparse_skip_empty_lines(s, i + 1)
    ELSE i

\* The line end from i on: the index after CRLF or LF; 0 when the input
\* ends before it, -1 on any other byte.
httparse_newline(s, i) ==
    IF i > Len(s) THEN 0
    ELSE IF s[i] = 10 THEN i + 1
    ELSE IF s[i] # 13 THEN 0 - 1
    ELSE IF i + 1 > Len(s) THEN 0
    ELSE IF s[i + 1] = 10 THEN i + 2
    ELSE 0 - 1

\* httparse on the request line: empty lines, then a method of token
\* bytes, one space, a target that is UTF-8, one space, HTTP/1.0 or
\* HTTP/1.1, and the line end.  Gives the method and the target as far as
\* they were read.
httparse_request_line(s) ==
    LET start == httparse_skip_empty_lines(s, 1)
        method_end == first_not_in(s, start, HTTP_TOKEN)
        method == Some(SubSeq(s, start, method_end - 1))
        path_end == first_not_in(s, method_end + 1, HTTP_URI)
        path == Some(SubSeq(s, method_end + 1, path_end - 1))
        version == SubSeq(s, path_end + 1, IF path_end + 8 <= Len(s) THEN path_end + 8 ELSE Len(s))
        line_end == httparse_newline(s, path_end + 9)
    IN  IF start = 0 THEN HttpLine("Partial", None, None, 0)
        ELSE IF start < 0 THEN HttpLine("Error", None, None, 0)
        ELSE IF method_end > Len(s) THEN HttpLine("Partial", None, None, 0)
        ELSE IF s[method_end] # 32 \/ method_end = start THEN HttpLine("Error", None, None, 0)
        ELSE IF path_end > Len(s) THEN HttpLine("Partial", method, None, 0)
        ELSE IF s[path_end] # 32 \/ path_end = method_end + 1
        THEN HttpLine("Error", method, None, 0)
        ELSE IF ~str_from_utf8(Unwrap(path)).ok THEN HttpLine("Error", method, None, 0)
        ELSE IF Len(version) < 8
        THEN (IF version = SubSeq(<<72, 84, 84, 80, 47, 49, 46>>, 1, Len(version))
              THEN HttpLine("Partial", method, path, 0)
              ELSE HttpLine("Error", method, path, 0))
        ELSE IF version \notin HTTP_VERSIONS THEN HttpLine("Error", method, path, 0)
        ELSE IF line_end = 0 THEN HttpLine("Partial", method, path, 0)
        ELSE IF line_end < 0 THEN HttpLine("Error", method, path, 0)
        ELSE HttpLine("Complete", method, path, line_end)

Header(name, value) == [name |-> name, value |-> value]

\* A header value without the spaces and tabs at its end.
RECURSIVE trim_end(_)
trim_end(value) ==
    IF Len(value) > 0 /\ value[Len(value)] \in {32, 9}
    THEN trim_end(SubSeq(value, 1, Len(value) - 1))
    ELSE value

\* httparse on the header lines from i on, `headers` read so far: a name
\* of token bytes, a colon, spaces and tabs, the value up to CRLF or LF;
\* the empty line ends them.  A header takes its slot of the sixteen once
\* its line end is read, as httparse 1.10 does: a header cut by the end of
\* the input is left out, be it the seventeenth, and a seventeenth whole
\* line is an error.
MAX_HEADERS == 16
RECURSIVE httparse_headers(_, _, _)
httparse_headers(s, i, headers) ==
    IF i > Len(s) THEN [status |-> "Partial", headers |-> headers]
    ELSE IF s[i] \in {13, 10}
    THEN [status |-> IF httparse_newline(s, i) > 0 THEN "Complete"
                     ELSE IF httparse_newline(s, i) = 0 THEN "Partial" ELSE "Error",
          headers |-> headers]
    ELSE IF s[i] \notin HTTP_TOKEN
    THEN [status |-> "Error", headers |-> headers]
    ELSE CHOOSE r \in
      {IF colon > Len(s) THEN [status |-> "Partial", headers |-> headers]
       ELSE IF s[colon] # 58 THEN [status |-> "Error", headers |-> headers]
       ELSE CHOOSE q \in
         {IF line_end = 0 THEN [status |-> "Partial", headers |-> headers]
          ELSE IF line_end < 0 \/ Len(headers) = MAX_HEADERS
          THEN [status |-> "Error", headers |-> headers]
          ELSE httparse_headers(s, line_end,
                                Append(headers,
                                       Header(SubSeq(s, i, colon - 1),
                                              trim_end(SubSeq(s, value_start, value_end - 1)))))
            : value_start \in {first_not_in(s, colon + 1, {32, 9})},
              value_end \in {first_not_in(s, first_not_in(s, colon + 1, {32, 9}),
                                          HTTP_HEADER_VALUE)},
              line_end \in {httparse_newline(s, first_not_in(s, first_not_in(s, colon + 1, {32, 9}),
                                                             HTTP_HEADER_VALUE))}} : TRUE
         : colon \in {first_not_in(s, i, HTTP_TOKEN)}} : TRUE

\* httparse::Request::new(&mut [EMPTY_HEADER; 16]).parse: an error, or the
\* method, the path and the headers read, of a whole head (Complete) or of
\* the front of one (Partial).
httparse_Request_parse(buf) ==
    CHOOSE r \in
      {IF line.status = "Error" THEN Err
       ELSE IF line.status = "Partial"
       THEN Ok([status |-> "Partial", method |-> line.method, path |-> line.path,
                headers |-> <<>>])
       ELSE CHOOSE q \in
              {IF read.status = "Error" THEN Err
               ELSE Ok([status |-> read.status, method |-> line.method,
                        path |-> line.path, headers |-> read.headers]) :
                 read \in {httparse_headers(buf, line.next, <<>>)}} : TRUE :
         line \in {httparse_request_line(buf)}} : TRUE

\* Faulty variant: a value above 65535 is the port 65535.
U16_MAX == 65535
parse_u16_saturating(s) ==
    LET digits == IF Len(s) > 0 /\ s[1] = 43 THEN Tail(s) ELSE s
    IN  IF Len(digits) = 0 \/ (\E i \in 1..Len(digits) : ~IsDigit(digits[i]))
        THEN Err
        ELSE IF DigitsValue(digits) > U16_MAX THEN Ok(U16_MAX) ELSE Ok(DigitsValue(digits))

\* str::parse::<u16>: an optional '+', then one or more decimal digits whose
\* value fits 16 bits.
parse_u16(s) ==
    LET digits == IF Len(s) > 0 /\ s[1] = 43 THEN Tail(s) ELSE s
    IN  IF Len(digits) = 0 \/ (\E i \in 1..Len(digits) : ~IsDigit(digits[i]))
        THEN Err
        ELSE IF DigitsValue(digits) > U16_MAX THEN Err ELSE Ok(DigitsValue(digits))

\* The address parser of std::net.  A step gives the value read and the
\* index after it, or fails and leaves the index where it was.
IP_NONE == [ok |-> FALSE, val |-> <<>>, next |-> 0]
IpSome(val, next) == [ok |-> TRUE, val |-> val, next |-> next]

\* The value of the digits s in the radix, at most four of them.
RECURSIVE radix_value(_, _)
radix_value(s, radix) ==
    IF Len(s) = 0 THEN 0
    ELSE radix * radix_value(SubSeq(s, 1, Len(s) - 1), radix) + hex_digit(s[Len(s)])

\* read_number: all the digits from i on; none, more than max_digits, or
\* a value above max is a failure, and so is a zero in front of other
\* digits unless allow_zero_prefix.
read_number(s, i, radix, max_digits, max, allow_zero_prefix) ==
    LET end == first_not_in(s, i, {c \in 48..122 : hex_digit(c) < radix})
        count == end - i
    IN  IF count = 0 \/ count > max_digits THEN IP_NONE
        ELSE IF ~allow_zero_prefix /\ s[i] = 48 /\ count > 1 THEN IP_NONE
        ELSE IF radix_value(SubSeq(s, i, end - 1), radix) > max THEN IP_NONE
        ELSE IpSome(radix_value(SubSeq(s, i, end - 1), radix), end)

\* read_ipv4_addr: four decimal numbers of 8 bits between dots.
RECURSIVE read_ipv4_addr(_, _, _)
read_ipv4_addr(s, i, octets) ==
    IF Len(octets) = 4 THEN IpSome(octets, i)
    ELSE IF Len(octets) > 0 /\ (i > Len(s) \/ s[i] # 46) THEN IP_NONE
    ELSE CHOOSE r \in
           {IF ~octet.ok THEN IP_NONE
            ELSE read_ipv4_addr(s, octet.next, Append(octets, octet.val)) :
              octet \in {read_number(s, IF Len(octets) > 0 THEN i + 1 ELSE i,
                                     10, 3, U8_MAX, FALSE)}} : TRUE

\* read_groups of read_ipv6_addr: up to `limit` groups of one to four
\* hexadecimal digits between colons, the last two of them possibly as an
\* IPv4 address.  Gives the groups read, whether an IPv4 address ended
\* them, and the index after them.
RECURSIVE read_groups(_, _, _, _)
read_groups(s, i, limit, groups) ==
    IF Len(groups) >= limit THEN [groups |-> groups, ipv4 |-> FALSE, next |-> i]
    ELSE IF Len(groups) > 0 /\ (i > Len(s) \/ s[i] # 58)
    THEN [groups |-> groups, ipv4 |-> FALSE, next |-> i]
    ELSE CHOOSE r \in
           {IF Len(groups) < limit - 1 /\ v4.ok
            THEN [groups |-> groups \o <<v4.val[1] * 256 + v4.val[2],
                                         v4.val[3] * 256 + v4.val[4]>>,
                  ipv4 |-> TRUE, next |-> v4.next]
            ELSE IF group.ok
            THEN read_groups(s, group.next, limit, Append(groups, group.val))
            ELSE [groups |-> groups, ipv4 |-> FALSE, next |-> i] :
              v4 \in {read_ipv4_addr(s, IF Len(groups) > 0 THEN i + 1 ELSE i, <<>>)},
              group \in {read_number(s, IF Len(groups) > 0 THEN i + 1 ELSE i,
                                     16, 4, U16_MAX, TRUE)}} : TRUE

\* read_ipv6_addr: eight groups, or the groups before "::" and those after
\* it with zeros between them for at least one group.
read_ipv6_addr(s) ==
    CHOOSE r \in
      {IF Len(head.groups) = 8 THEN IpSome(head.groups, head.next)
       ELSE IF head.ipv4 \/ ~starts_with(s, head.next, <<58, 58>>) THEN IP_NONE
       ELSE CHOOSE q \in
              {IpSome(head.groups
                      \o [k \in 1..(8 - Len(head.groups) - Len(tail.groups)) |-> 0]
                      \o tail.groups, tail.next) :
                 tail \in {read_groups(s, head.next + 2, 8 - (Len(head.groups) + 1), <<>>)}} : TRUE :
         head \in {read_groups(s, 1, 8, <<>>)}} : TRUE

\* str::parse::<IpAddr>: an IPv4 address, its four octets, or else an IPv6
\* address, its eight groups; nothing may follow the address.
IpAddr_from_str(s) ==
    CHOOSE r \in
      {IF v4.ok THEN (IF v4.next = Len(s) + 1 THEN Ok(v4.val) ELSE Err)
       ELSE CHOOSE q \in {IF v6.ok /\ v6.next = Len(s) + 1 THEN Ok(v6.val) ELSE Err :
                            v6 \in {read_ipv6_addr(s)}} : TRUE :
         v4 \in {read_ipv4_addr(s, 1, <<>>)}} : TRUE

\* The names of the ten headers of a reply, and of a header that is not
\* one of them, as bytes.
HeaderNames ==
    [DeviceName |-> <<68, 101, 118, 105, 99, 101, 78, 97, 109, 101>>,
     DeviceID |-> <<68, 101, 118, 105, 99, 101, 73, 68>>,
     DeviceState |-> <<68, 101, 118, 105, 99, 101, 83, 116, 97, 116, 101>>,
     PORT |-> <<80, 79, 82, 84>>,
     ZoneID |-> <<90, 111, 110, 101, 73, 68>>,
     Creator |-> <<67, 114, 101, 97, 116, 111, 114>>,
     IPAddr |-> <<73, 80, 65, 100, 100, 114>>,
     ColorCode |-> <<67, 111, 108, 111, 114, 67, 111, 100, 101>>,
     FWVersion |-> <<70, 87, 86, 101, 114, 115, 105, 111, 110>>,
     StereoPairID |-> <<83, 116, 101, 114, 101, 111, 80, 97, 105, 114, 73, 68>>,
     HOST |-> <<72, 79, 83, 84>>]

\* The headers named name, in the order of the datagram.
headers_named(headers, name) == SelectSeq(headers, LAMBDA h : h.name = HeaderNames[name])

\* The value the loop over the headers leaves in a variable: that of the
\* last header of that name.
last_value(headers, name) ==
    LET found == headers_named(headers, name)
    IN  IF found = <<>> THEN None ELSE Some(found[Len(found)].value)

TextHeaders ==
    <<"DeviceName", "DeviceID", "DeviceState", "ZoneID", "Creator", "ColorCode",
      "FWVersion", "StereoPairID">>

\* DiscoveryReply::parse: an input that starts with the start line of the
\* devices goes to httparse without the space before its CRLF; the method
\* must be NOTIFY, the path *; a PORT or an IPAddr header that does not
\* parse ends the loop with an error; every one of the ten headers must
\* have been seen.
DiscoveryReply_parse(input) ==
    LET fixed == IF starts_with(input, 1, BROKEN_NOTIFY_PREFIX)
                 THEN FIXED_NOTIFY_PREFIX
                      \o SubSeq(input, Len(BROKEN_NOTIFY_PREFIX) + 1, Len(input))
                 ELSE input
        req == httparse_Request_parse(fixed)
    IN  IF ~req.ok THEN Err
        ELSE IF req.val[1].method # Some(<<78, 79, 84, 73, 70, 89>>) THEN Err
        ELSE IF req.val[1].path # Some(<<42>>) THEN Err
        ELSE LET headers == req.val[1].headers
                 ports == headers_named(headers, "PORT")
                 addrs == headers_named(headers, "IPAddr")
             IN  IF \E i \in 1..Len(ports) : ~parse_u16(from_utf8_lossy(ports[i].value)).ok
                 THEN Err
                 ELSE IF \E i \in 1..Len(addrs) :
                            ~IpAddr_from_str(from_utf8_lossy(addrs[i].value)).ok
                 THEN Err
                 ELSE IF ports = <<>> \/ addrs = <<>>
                         \/ \E i \in 1..Len(TextHeaders) :
                              headers_named(headers, TextHeaders[i]) = <<>>
                 THEN Err
                 ELSE Ok([device_name |-> from_utf8_lossy(Unwrap(last_value(headers, "DeviceName"))),
                          device_id |-> from_utf8_lossy(Unwrap(last_value(headers, "DeviceID"))),
                          device_state |-> from_utf8_lossy(Unwrap(last_value(headers, "DeviceState"))),
                          port |-> parse_u16(from_utf8_lossy(Unwrap(last_value(headers, "PORT")))).val[1],
                          zone_id |-> from_utf8_lossy(Unwrap(last_value(headers, "ZoneID"))),
                          creator |-> from_utf8_lossy(Unwrap(last_value(headers, "Creator"))),
                          ip_address |-> IpAddr_from_str(from_utf8_lossy(
                                             Unwrap(last_value(headers, "IPAddr")))).val[1],
                          color_code |-> from_utf8_lossy(Unwrap(last_value(headers, "ColorCode"))),
                          firmware_version |-> from_utf8_lossy(Unwrap(last_value(headers, "FWVersion"))),
                          stereo_pair_id |-> from_utf8_lossy(Unwrap(last_value(headers, "StereoPairID")))])

(***************************************************************************)
(* The payloads the environment sends, as bytes.                           *)
(***************************************************************************)
\* "Pretty name", as bytes and as characters.
S_PRETTY_NAME == <<80, 114, 101, 116, 116, 121, 32, 110, 97, 109, 101>>
\* 3, 35, 101
B_3 == <<51>>
B_35 == <<51, 53>>
B_101 == <<49, 48, 49>>
\* {"isFromChannel":true} and []
B_PLAY_INFO == <<123, 34, 105, 115, 70, 114, 111, 109, 67, 104, 97, 110, 110,
                 101, 108, 34, 58, 116, 114, 117, 101, 125>>
B_EMPTY_ARRAY == <<91, 93>>
\* {"isFromChannel": false, "play_title":"x"} and a line feed
B_PLAY_INFO_TITLE == <<123, 34, 105, 115, 70, 114, 111, 109, 67, 104, 97, 110, 110, 101, 108, 34, 58, 32, 102, 97, 108, 115, 101, 44, 32, 34, 112, 108, 97, 121, 95, 116, 105, 116, 108, 101, 34, 58, 34, 120, 34, 125, 10>>
\* [{"channel_id":1,"channel_type":"spotify","channel_name":"x"}]
B_ONE_CHANNEL == <<91, 123, 34, 99, 104, 97, 110, 110, 101, 108, 95, 105, 100, 34, 58, 49, 44, 34, 99, 104, 97, 110, 110, 101, 108, 95, 116, 121, 112, 101, 34, 58, 34, 115, 112, 111, 116, 105, 102, 121, 34, 44, 34, 99, 104, 97, 110, 110, 101, 108, 95, 110, 97, 109, 101, 34, 58, 34, 120, 34, 125, 93>>

(***************************************************************************)
(* serde_json::from_slice, as PlayInfo and PreChannel call it.  The bytes  *)
(* are read as one JSON value between optional whitespace; the value is    *)
(* then taken as the type asked for.  A value is a `node` with its kind t  *)
(* and its content v.                                                      *)
(***************************************************************************)
JSON_WHITESPACE == {32, 10, 9, 13}
DIGITS == 48..57
json_skip_whitespace(s, i) == first_not_in(s, i, JSON_WHITESPACE)

JSON_ERR == [ok |-> FALSE, node |-> <<>>, next |-> 0]
JsonOk(node, next) == [ok |-> TRUE, node |-> node, next |-> next]
JsonNode(t, v) == [t |-> t, v |-> v]

\* A number: '-'?, then 0 or a run of digits that starts with 1..9, then a
\* fraction and an exponent, each optional.  Without fraction and exponent
\* it is an integer, given by its sign and digits; "-0" is a float.
json_number(s, i) ==
    LET neg == s[i] = 45
        first == IF neg THEN i + 1 ELSE i
        int_end == IF first <= Len(s) /\ s[first] = 48 THEN first + 1
                   ELSE first_not_in(s, first, DIGITS)
        has_frac == int_end <= Len(s) /\ s[int_end] = 46
        frac_end == IF has_frac THEN first_not_in(s, int_end + 1, DIGITS) ELSE int_end
        has_exp == frac_end <= Len(s) /\ s[frac_end] \in {101, 69}
        exp_first == IF has_exp /\ frac_end + 1 <= Len(s) /\ s[frac_end + 1] \in {43, 45}
                     THEN frac_end + 2 ELSE frac_end + 1
        exp_end == IF has_exp THEN first_not_in(s, exp_first, DIGITS) ELSE frac_end
        digits == SubSeq(s, first, int_end - 1)
    IN  IF int_end = first \/ (has_frac /\ frac_end = int_end + 1)
           \/ (has_exp /\ exp_end = exp_first)
        THEN JSON_ERR
        ELSE IF has_frac \/ has_exp \/ (neg /\ digits = <<48>>)
        THEN JsonOk(JsonNode("float", <<>>), exp_end)
        ELSE JsonOk(JsonNode("int", [neg |-> neg, digits |-> digits]), exp_end)

\* decode_hex_escape: the four hexadecimal digits from i on.
decode_hex_escape(s, i) ==
    IF i + 3 > Len(s) \/ \E k \in i..(i + 3) : hex_digit(s[k]) = 16 THEN Err
    ELSE Ok(hex_digit(s[i]) * 4096 + hex_digit(s[i + 1]) * 256
            + hex_digit(s[i + 2]) * 16 + hex_digit(s[i + 3]))

\* The byte an escape letter stands for: " \ / b f n r t.
json_escape(letter) ==
    CASE letter = 98 -> 8 [] letter = 102 -> 12 [] letter = 110 -> 10
      [] letter = 114 -> 13 [] letter = 116 -> 9 [] OTHER -> letter
JSON_ESCAPES == {34, 92, 47, 98, 102, 110, 114, 116}

IsLeadingSurrogate(n) == n >= 55296 /\ n <= 56319
IsTrailingSurrogate(n) == n >= 56320 /\ n <= 57343

\* A string from the byte after its opening quote: bytes up to the closing
\* quote, no control character, \-escapes.  As a skipped value it is only
\* checked for that form.  As a key or as a String it is `strict`: its
\* \u escapes are code points or surrogate pairs and its bytes are UTF-8;
\* `text` is then its characters.
RECURSIVE json_string(_, _, _, _)
json_string(s, i, bytes, paired) ==
    IF i > Len(s) THEN JSON_ERR
    ELSE IF s[i] = 34
    THEN CHOOSE r \in
           {JsonOk(JsonNode("str", [strict |-> paired /\ String_as_bytes(text) = bytes,
                                    text |-> IF paired /\ String_as_bytes(text) = bytes
                                             THEN text ELSE <<>>]), i + 1) :
              text \in {from_utf8_lossy(bytes)}} : TRUE
    ELSE IF s[i] < 32 THEN JSON_ERR
    ELSE IF s[i] # 92
    THEN CHOOSE r \in {json_string(s, j, b, paired) :
                         j \in {i + 1}, b \in {Append(bytes, s[i])}} : TRUE
    ELSE IF i + 1 > Len(s) THEN JSON_ERR
    ELSE IF s[i + 1] \in JSON_ESCAPES
    THEN CHOOSE r \in {json_string(s, j, b, paired) :
                         j \in {i + 2}, b \in {Append(bytes, json_escape(s[i + 1]))}} : TRUE
    ELSE IF s[i + 1] # 117 THEN JSON_ERR
    ELSE CHOOSE r \in
           {IF ~n1.ok THEN JSON_ERR
            ELSE IF ~IsLeadingSurrogate(n1.val[1]) /\ ~IsTrailingSurrogate(n1.val[1])
            THEN json_string(s, i + 6, bytes \o encode_utf8(n1.val[1]), paired)
            ELSE IF IsLeadingSurrogate(n1.val[1]) /\ starts_with(s, i + 6, <<92, 117>>)
                    /\ n2.ok /\ IsTrailingSurrogate(n2.val[1])
            THEN json_string(s, i + 12,
                             bytes \o encode_utf8((n1.val[1] - 55296) * 1024
                                                  + (n2.val[1] - 56320) + 65536),
                             paired)
            ELSE json_string(s, i + 6, bytes, FALSE) :
              n1 \in {decode_hex_escape(s, i + 2)},
              n2 \in {decode_hex_escape(s, i + 8)}} : TRUE

\* One JSON value from i on, i at its first byte.
RECURSIVE json_value(_, _)
RECURSIVE json_elements(_, _, _)
RECURSIVE json_members(_, _, _)
json_value(s, i) ==
    IF i > Len(s) THEN JSON_ERR
    ELSE CASE s[i] = 110 ->
                IF starts_with(s, i, <<110, 117, 108, 108>>)
                THEN JsonOk(JsonNode("null", <<>>), i + 4) ELSE JSON_ERR
           [] s[i] = 116 ->
                IF starts_with(s, i, <<116, 114, 117, 101>>)
                THEN JsonOk(JsonNode("bool", TRUE), i + 4) ELSE JSON_ERR
           [] s[i] = 102 ->
                IF starts_with(s, i, <<102, 97, 108, 115, 101>>)
                THEN JsonOk(JsonNode("bool", FALSE), i + 5) ELSE JSON_ERR
           [] s[i] = 34 -> json_string(s, i + 1, <<>>, TRUE)
           [] s[i] = 45 \/ s[i] \in DIGITS -> json_number(s, i)
           [] s[i] = 91 ->
                CHOOSE r \in {IF j <= Len(s) /\ s[j] = 93
                              THEN JsonOk(JsonNode("arr", <<>>), j + 1)
                              ELSE json_elements(s, j, <<>>) :
                                j \in {json_skip_whitespace(s, i + 1)}} : TRUE
           [] s[i] = 123 ->
                CHOOSE r \in {IF j <= Len(s) /\ s[j] = 125
                              THEN JsonOk(JsonNode("obj", <<>>), j + 1)
                              ELSE json_members(s, j, <<>>) :
                                j \in {json_skip_whitespace(s, i + 1)}} : TRUE
           [] OTHER -> JSON_ERR

\* The elements of an array from i on, i at the first byte of an element.
json_elements(s, i, items) ==
    CHOOSE r \in
      {IF ~value.ok THEN JSON_ERR
       ELSE CHOOSE q \in
              {IF j > Len(s) THEN JSON_ERR
               ELSE IF s[j] = 93 THEN JsonOk(JsonNode("arr", Append(items, value.node)), j + 1)
               ELSE IF s[j] = 44
               THEN json_elements(s, json_skip_whitespace(s, j + 1), Append(items, value.node))
               ELSE JSON_ERR :
                 j \in {json_skip_whitespace(s, value.next)}} : TRUE :
         value \in {json_value(s, i)}} : TRUE

\* The members of an object from i on, i at the first byte of a key.
json_members(s, i, members) ==
    IF i > Len(s) \/ s[i] # 34 THEN JSON_ERR
    ELSE CHOOSE r \in
      {IF ~key.ok THEN JSON_ERR
       ELSE CHOOSE q \in
         {IF colon > Len(s) \/ s[colon] # 58 THEN JSON_ERR
          ELSE CHOOSE p \in
            {IF ~value.ok THEN JSON_ERR
             ELSE CHOOSE o \in
               {IF j > Len(s) THEN JSON_ERR
                ELSE IF s[j] = 125
                THEN JsonOk(JsonNode("obj", Append(members, [key |-> key.node.v,
                                                             value |-> value.node])), j + 1)
                ELSE IF s[j] = 44
                THEN json_members(s, json_skip_whitespace(s, j + 1),
                                  Append(members, [key |-> key.node.v, value |-> value.node]))
                ELSE JSON_ERR :
                  j \in {json_skip_whitespace(s, value.next)}} : TRUE :
               value \in {json_value(s, json_skip_whitespace(s, colon + 1))}} : TRUE :
            colon \in {json_skip_whitespace(s, key.next)}} : TRUE :
         key \in {json_string(s, i + 1, <<>>, TRUE)}} : TRUE

\* from_slice: one value, whitespace before and after it, nothing else.
serde_json_from_slice(data) ==
    CHOOSE r \in
      {IF value.ok /\ json_skip_whitespace(data, value.next) = Len(data) + 1
       THEN value ELSE JSON_ERR :
         value \in {json_value(data, json_skip_whitespace(data, 1))}} : TRUE

\* a <= b for decimal digits without leading zeros.
digits_le(a, b) ==
    \/ Len(a) < Len(b)
    \/ /\ Len(a) = Len(b)
       /\ \/ a = b
          \/ \E i \in 1..Len(a) : a[i] < b[i] /\ \A j \in 1..(i - 1) : a[j] = b[j]

\* 2147483647 and 9223372036854775807; the least value of each type is one
\* further from zero.
I32_MAX == <<50, 49, 52, 55, 52, 56, 51, 54, 52, 55>>
I32_MIN == <<50, 49, 52, 55, 52, 56, 51, 54, 52, 56>>
I64_MAX == <<57, 50, 50, 51, 51, 55, 50, 48, 51, 54, 56, 53, 52, 55, 55, 53, 56, 48, 55>>
I64_MIN == <<57, 50, 50, 51, 51, 55, 50, 48, 51, 54, 56, 53, 52, 55, 55, 53, 56, 48, 56>>

\* The integer of a sign and digits that fit 32 bits.
json_int_value(int) ==
    LET front == DigitsValue(SubSeq(int.digits, 1, Len(int.digits) - 1))
        unit == int.digits[Len(int.digits)] - 48
    IN  IF int.neg THEN (0 - 10 * front) - unit ELSE 10 * front + unit

\* An i64: the integer when it fits 32 bits, and else its decimal text,
\* the integers of this model being 32 bits wide.
json_i64_value(int) ==
    IF digits_le(int.digits, IF int.neg THEN I32_MIN ELSE I32_MAX)
    THEN json_int_value(int)
    ELSE (IF int.neg THEN <<45>> ELSE <<>>) \o int.digits

\* ChannelType, #[serde(rename_all = "lowercase")]: the name of a variant
\* in lower case.
ChannelTypes ==
    <<[text |-> <<118, 116, 117, 110, 101, 114>>, variant |-> "VTuner"],
      [text |-> <<120, 109, 108, 121>>, variant |-> "XMLY"],
      [text |-> <<100, 111, 117, 98, 97, 110, 102, 109>>, variant |-> "DoubanFM"],
      [text |-> <<115, 112, 111, 116, 105, 102, 121>>, variant |-> "Spotify"],
      [text |-> <<107, 97, 105, 115, 104, 117>>, variant |-> "Kaishu"],
      [text |-> <<100, 101, 101, 122, 101, 114>>, variant |-> "Deezer"],
      [text |-> <<116, 105, 100, 97, 108>>, variant |-> "Tidal"],
      [text |-> <<110, 97, 112, 115, 116, 101, 114>>, variant |-> "Napster"]>>

ChannelType_variant(name) ==
    IF name.strict /\ \E k \in 1..Len(ChannelTypes) : ChannelTypes[k].text = name.text
    THEN Ok(ChannelTypes[CHOOSE k \in 1..Len(ChannelTypes) :
                           ChannelTypes[k].text = name.text].variant)
    ELSE Err

\* A unit variant is its name as a string, or an object of the one member
\* name: null.
ChannelType_deserialize(node) ==
    IF node.t = "str" THEN ChannelType_variant(node.v)
    ELSE IF node.t = "obj" /\ Len(node.v) = 1 /\ node.v[1].value.t = "null"
    THEN ChannelType_variant(node.v[1].key)
    ELSE Err

\* A value taken as a type of a field.
json_typed(node, type) ==
    CASE type = "bool" -> IF node.t = "bool" THEN Ok(node.v) ELSE Err
      [] type = "String" -> IF node.t = "str" /\ node.v.strict THEN Ok(node.v.text) ELSE Err
      [] type = "i32" ->
           IF node.t = "int" /\ digits_le(node.v.digits, IF node.v.neg THEN I32_MIN ELSE I32_MAX)
           THEN Ok(json_int_value(node.v)) ELSE Err
      [] type = "i64" ->
           IF node.t = "int" /\ digits_le(node.v.digits, IF node.v.neg THEN I64_MIN ELSE I64_MAX)
           THEN Ok(json_i64_value(node.v)) ELSE Err
      [] type = "ChannelType" -> ChannelType_deserialize(node)

\* A field of a struct: the key it is read from, its type, or Option of
\* that type.
JsonField(key, type, optional) == [key |-> key, type |-> type, optional |-> optional]

\* A value taken as a field: for an Option null is None.
json_field(node, field) ==
    IF ~field.optional THEN json_typed(node, field.type)
    ELSE IF node.t = "null" THEN Ok(None)
    ELSE CHOOSE r \in {IF typed.ok THEN Ok(typed.val) ELSE Err :
                         typed \in {json_typed(node, field.type)}} : TRUE

\* The members of an object whose key is that of the field.
json_members_named(members, field) ==
    {m \in 1..Len(members) : members[m].key.text = field.key}

\* A field of a struct read from an object: the member of its key, one at
\* most; without a member an Option is None and any other type an error.
json_field_of_object(members, field) ==
    CHOOSE r \in
      {IF found = {} THEN (IF field.optional THEN Ok(None) ELSE Err)
       ELSE IF Cardinality(found) > 1 THEN Err
       ELSE json_field(members[CHOOSE m \in found : TRUE].value, field) :
         found \in {json_members_named(members, field)}} : TRUE

\* A struct with #[derive(Deserialize)]: from an object, by key, members
\* of other keys skipped; or from an array of all its fields in order.
\* Gives the values of the fields in the order of `fields`.
json_struct(node, fields) ==
    CHOOSE r \in
      {IF \A k \in 1..Len(fields) : values[k].ok
       THEN Ok([k \in 1..Len(fields) |-> values[k].val[1]])
       ELSE Err :
         values \in
           {IF node.t = "arr" /\ Len(node.v) = Len(fields)
            THEN [k \in 1..Len(fields) |-> json_field(node.v[k], fields[k])]
            ELSE IF node.t = "obj" /\ \A m \in 1..Len(node.v) : node.v[m].key.strict
            THEN [k \in 1..Len(fields) |-> json_field_of_object(node.v, fields[k])]
            ELSE [k \in 1..Len(fields) |-> Err]}} : TRUE

\* PlayInfoData: is_from_channel is read from isFromChannel.
PlayInfoData_FIELDS ==
    <<JsonField(<<105, 115, 70, 114, 111, 109, 67, 104, 97, 110, 110, 101, 108>>, "bool", FALSE),   \* isFromChannel
      JsonField(<<112, 108, 97, 121, 95, 97, 108, 98, 117, 109>>, "String", TRUE),   \* play_album
      JsonField(<<112, 108, 97, 121, 95, 97, 108, 98, 117, 109, 95, 117, 114, 105>>, "String", TRUE),   \* play_album_uri
      JsonField(<<112, 108, 97, 121, 95, 97, 114, 116, 105, 115, 116>>, "String", TRUE),   \* play_artist
      JsonField(<<112, 108, 97, 121, 95, 97, 116, 116, 114, 105, 98, 117, 116, 105, 111, 110>>, "String", TRUE),   \* play_attribution
      JsonField(<<112, 108, 97, 121, 95, 105, 100, 101, 110, 116, 105, 116, 121>>, "String", TRUE),   \* play_identity
      JsonField(<<112, 108, 97, 121, 95, 111, 98, 106, 101, 99, 116>>, "String", TRUE),   \* play_object
      JsonField(<<112, 108, 97, 121, 95, 112, 105, 99>>, "String", TRUE),   \* play_pic
      JsonField(<<112, 108, 97, 121, 95, 112, 114, 101, 115, 101, 116, 95, 97, 118, 97, 105, 108, 97, 98, 108, 101>>, "i32", TRUE),   \* play_preset_available
      JsonField(<<112, 108, 97, 121, 95, 115, 117, 98, 116, 105, 116, 108, 101>>, "String", TRUE),   \* play_subtitle
      JsonField(<<112, 108, 97, 121, 95, 116, 105, 116, 108, 101>>, "String", TRUE),   \* play_title
      JsonField(<<112, 108, 97, 121, 95, 116, 121, 112, 101>>, "String", TRUE),   \* play_type
      JsonField(<<112, 108, 97, 121, 95, 117, 115, 101, 114, 110, 97, 109, 101>>, "String", TRUE),   \* play_username
      JsonField(<<112, 108, 97, 121, 95, 116, 111, 107, 101, 110>>, "String", TRUE)>>   \* play_token

PlayInfoData(values) ==
    [is_from_channel |-> values[1],
     play_album |-> values[2],
     play_album_uri |-> values[3],
     play_artist |-> values[4],
     play_attribution |-> values[5],
     play_identity |-> values[6],
     play_object |-> values[7],
     play_pic |-> values[8],
     play_preset_available |-> values[9],
     play_subtitle |-> values[10],
     play_title |-> values[11],
     play_type |-> values[12],
     play_username |-> values[13],
     play_token |-> values[14]]

\* serde_json::from_slice::<PlayInfoData>
PlayInfo_unmarshal_data(data) ==
    CHOOSE r \in
      {IF ~parsed.ok THEN Err
       ELSE CHOOSE q \in {IF fields.ok THEN Ok(PlayInfoData(fields.val[1])) ELSE Err :
                            fields \in {json_struct(parsed.node, PlayInfoData_FIELDS)}} : TRUE :
         parsed \in {serde_json_from_slice(data)}} : TRUE

\* ChannelObject: is_playing is read from isPlaying.
ChannelObject_FIELDS ==
    <<JsonField(<<105, 115, 80, 108, 97, 121, 105, 110, 103>>, "bool", TRUE),   \* isPlaying
      JsonField(<<99, 104, 97, 110, 110, 101, 108, 95, 105, 100>>, "i64", FALSE),   \* channel_id
      JsonField(<<99, 104, 97, 110, 110, 101, 108, 95, 116, 121, 112, 101>>, "ChannelType", FALSE),   \* channel_type
      JsonField(<<99, 104, 97, 110, 110, 101, 108, 95, 110, 97, 109, 101>>, "String", FALSE),   \* channel_name
      JsonField(<<99, 104, 97, 110, 110, 101, 108, 95, 105, 100, 101, 110, 116, 105, 116, 121>>, "String", TRUE),   \* channel_identity
      JsonField(<<115, 116, 97, 116, 105, 111, 110, 95, 117, 114, 108>>, "String", TRUE),   \* station_url
      JsonField(<<112, 105, 99, 116, 117, 114, 101, 95, 117, 114, 108>>, "String", TRUE),   \* picture_url
      JsonField(<<117, 115, 101, 114, 110, 97, 109, 101>>, "String", TRUE),   \* username
      JsonField(<<112, 97, 115, 115, 119, 111, 114, 100>>, "String", TRUE),   \* password
      JsonField(<<112, 108, 97, 121, 95, 116, 111, 107, 101, 110>>, "String", TRUE)>>   \* play_token

ChannelObject(values) ==
    [is_playing |-> values[1],
     channel_id |-> values[2],
     channel_type |-> values[3],
     channel_name |-> values[4],
     channel_identity |-> values[5],
     station_url |-> values[6],
     picture_url |-> values[7],
     username |-> values[8],
     password |-> values[9],
     play_token |-> values[10]]

\* serde_json::from_slice::<Vec<ChannelObject>>: an array of structs.
PreChannel_unmarshal_data(data) ==
    CHOOSE r \in
      {IF ~parsed.ok \/ parsed.node.t # "arr" THEN Err
       ELSE CHOOSE q \in
              {IF \A k \in 1..Len(channels) : channels[k].ok
               THEN Ok([k \in 1..Len(channels) |-> ChannelObject(channels[k].val[1])])
               ELSE Err :
                 channels \in {[k \in 1..Len(parsed.node.v) |->
                                  json_struct(parsed.node.v[k], ChannelObject_FIELDS)]}} : TRUE :
         parsed \in {serde_json_from_slice(data)}} : TRUE

\* Command::packet, Command::fetch and Command::set.
Command_fetch(get_command_id) == Packet(COMMAND_TYPE_FETCH, get_command_id, None)
Command_set(set_command_id, bytes) == Packet(COMMAND_TYPE_SET, set_command_id, Some(bytes))

(***************************************************************************)
(* The environment: the devices that answer discovery, the packets that    *)
(* arrive, the arguments of the API calls.                                 *)
(***************************************************************************)
DeviceIds == {"test-device", "0123456789ab"}
IpAddrs == {"192.168.10.10", "192.168.178.75"}

\* A DiscoveryReply, reduced to the two fields register_device reads.
DiscoveryReplies == [device_id : DeviceIds, ip_address : IpAddrs]

\* The command ids handle_device_update dispatches on, and ids it does not.
UpdateCommands ==
    {DeviceName_GET_REPLY_COMMAND_ID, Volume_GET_REPLY_COMMAND_ID,
     PlayControl_GET_REPLY_COMMAND_ID, PlayInfo_GET_REPLY_COMMAND_ID,
     ChargingState_GET_REPLY_COMMAND_ID, BatteryLevel_GET_REPLY_COMMAND_ID,
     BatteryLevel_NOTIFY_ID, PreChannel_GET_COMMAND_ID}
OtherCommands ==
    {BatteryLevel_GET_COMMAND_ID, PlayControl_SET_COMMAND_ID, PreChannel_SET_COMMAND_ID,
     PlayInfo_SET_COMMAND_ID, PowerMode_GET_COMMAND_ID, Power_NOTIFY_ID,
     FirmwareUpdate_GET_COMMAND_ID, Capabilities_GET_COMMAND_ID, ACK_COMMAND_ID,
     HELLO_COMMAND_ID}

\* No payload; a digit (a number, a play verb, a charging state); a number
\* above 100; a JSON object (not a number); a JSON array.  On the play
\* info and the channel commands also: an object with whitespace, a title
\* and isFromChannel false; an array of one channel.
Payloads == {None, Some(B_3), Some(B_101), Some(B_PLAY_INFO), Some(B_EMPTY_ARRAY)}

InPackets ==
    [command_type : {COMMAND_TYPE_SET}, command : UpdateCommands, command_data : Payloads]
    \cup [command_type : {COMMAND_TYPE_SET}, command : OtherCommands,
          command_data : {None, Some(B_3)}]
    \cup [command_type : {COMMAND_TYPE_FETCH}, command : UpdateCommands,
          command_data : {Some(B_3)}]
    \cup {Packet(COMMAND_TYPE_SET, PlayInfo_GET_REPLY_COMMAND_ID, Some(B_PLAY_INFO_TITLE)),
          Packet(COMMAND_TYPE_SET, PreChannel_GET_COMMAND_ID, Some(B_ONE_CHANNEL))}

\* Packets a caller hands to send_packet.
ApiPackets ==
    {Packet(COMMAND_TYPE_SET, HELLO_COMMAND_ID, Some(B_35)),
     Command_fetch(Volume_GET_COMMAND_ID),
     Packet(COMMAND_TYPE_SET, PlayControl_SET_COMMAND_ID, Some(<<80, 76, 65, 89>>))}

Volumes == {0, 9, 10, 35, 99, 100, 101, 255}

(***************************************************************************)
(* device.rs: Device, DeviceManagerEvent, DeviceManagerData.               *)
(***************************************************************************)
Device_new(id, addr) ==
    [id |-> id, addr |-> addr, name |-> None, volume |-> None, play_status |-> None,
     play_info |-> None, pre_channels |-> None, charging_state |-> None,
     battery_level |-> None]

DeviceDiscovered(device) == [kind |-> "DeviceDiscovered", device |-> device]
DeviceUpdated(device) == [kind |-> "DeviceUpdated", device |-> device]

SocketAddr(ip, port) == [ip |-> ip, port |-> port]

\* One call of sock_send.send_packet: the packet, its destination and
\* whether the socket reported success.
Sent(packet, to, ok) == [packet |-> packet, to |-> to, ok |-> ok]

EmptyTable == [id \in {} |-> Device_new(id, id)]
HashMap_insert(table, key, value) ==
    [k \in DOMAIN table \cup {key} |-> IF k = key THEN value ELSE table[k]]

VARIABLES
    devices,          \* DeviceManagerData.devices: id -> Device
    event_listeners,  \* DeviceManagerData.event_listeners: the senders, in order
    receivers,        \* the channels whose Receiver has not been dropped
    inbox,            \* per channel, the events sent into it
    last,             \* the handler holding the mutex ("idle": the mutex is free)
    announced,        \* per device id, how many DeviceDiscovered were published
    changes,          \* handlers that published an event or added a listener, so far
    published,        \* history: the events send_event was called with, in order
    listen_at,        \* history: per channel, Len(published) when listen() pushed it
    worker,           \* per worker thread, where its supervisor and function stand
    codec,            \* a packet, its frame and the parse of the frame
    fake              \* the fake back-ends: the device's playing bit, the ports' queues

vars == <<devices, event_listeners, receivers, inbox, last, announced, changes,
          published, listen_at, worker, codec, fake>>

\* The variables of the event-bus history, of the worker threads, of the
\* packet codec and of the fake back-ends, and their values in a specification that leaves them out.
busVars == <<published, listen_at>>
workerVars == <<worker>>
codecVars == <<codec>>
fakeVars == <<fake>>
BusParked == published = <<>> /\ listen_at = <<>>
WorkersParked == worker = <<>>
CodecParked == codec = <<>>
FakeParked == fake = <<>>

Channels == 1..MaxListeners

\* Vec::remove(idx), idx counted from 0.
Vec_remove(v, idx) == SubSeq(v, 1, idx) \o SubSeq(v, idx + 2, Len(v))

\* send_event, first loop: the indices (from 0) of the senders whose send
\* fails, that is whose receiver was dropped.
failed_send_indices(listeners, live) ==
    LET F[i \in 0..Len(listeners)] ==
            IF i = 0 THEN <<>>
            ELSE IF listeners[i] \in live THEN F[i - 1] ELSE Append(F[i - 1], i - 1)
    IN  F[Len(listeners)]

\* Faulty variant: only the first failed index is removed.
remove_failed_first_only(listeners, failed) ==
    IF Len(failed) = 0 THEN listeners ELSE Vec_remove(listeners, failed[1])

\* send_event, second loop: remove the failed indices, last first.
RECURSIVE remove_failed(_, _)
remove_failed(listeners, failed) ==
    IF Len(failed) = 0 THEN listeners
    ELSE remove_failed(Vec_remove(listeners, failed[Len(failed)]),
                       SubSeq(failed, 1, Len(failed) - 1))

\* Faulty variant: the first loop stops at the first send that fails.
send_event_stop_at_failure(listeners, live, boxes, event) ==
    LET failed == failed_send_indices(listeners, live)
        stop == IF failed = <<>> THEN Len(listeners) ELSE failed[1]
    IN  [event_listeners |->
             remove_failed(listeners, IF failed = <<>> THEN <<>> ELSE <<failed[1]>>),
         inbox |-> [c \in DOMAIN boxes |->
                      IF c \in live /\ (\E i \in 1..stop : listeners[i] = c)
                      THEN Append(boxes[c], event) ELSE boxes[c]]]

send_event(listeners, live, boxes, event) ==
    [event_listeners |-> remove_failed(listeners, failed_send_indices(listeners, live)),
     inbox |-> [c \in DOMAIN boxes |->
                  IF c \in live /\ (\E i \in 1..Len(listeners) : listeners[i] = c)
                  THEN Append(boxes[c], event) ELSE boxes[c]]]

\* What a handler did: the manager's data and the channels after it, its
\* result, the sends it made, the events it published, and its effects in
\* the order the code performs them.
Outcome(table, listeners, boxes, result, sent, events, trace) ==
    [devices |-> table, event_listeners |-> listeners, inbox |-> boxes,
     result |-> result, sent |-> sent, events |-> events, trace |-> trace]

\* Faulty variant: no contains_key test, every reply inserts and publishes.
register_device_always(table, listeners, live, boxes, info) ==
    LET device == Device_new(info.device_id, info.ip_address)
        bus == send_event(listeners, live, boxes, DeviceDiscovered(device))
    IN  Outcome(HashMap_insert(table, device.id, device), bus.event_listeners,
                bus.inbox, "ok", <<>>, <<DeviceDiscovered(device)>>,
                <<"insert", "publish">>)

\* Faulty variant: a reply with a known id refreshes the address of its record.
register_device_refresh(table, listeners, live, boxes, info) ==
    IF info.device_id \in DOMAIN table
    THEN Outcome([table EXCEPT ![info.device_id].addr = info.ip_address],
                 listeners, boxes, "ok", <<>>, <<>>, <<>>)
    ELSE LET device == Device_new(info.device_id, info.ip_address)
             bus == send_event(listeners, live, boxes, DeviceDiscovered(device))
         IN  Outcome(HashMap_insert(table, device.id, device), bus.event_listeners,
                     bus.inbox, "ok", <<>>, <<DeviceDiscovered(device)>>,
                     <<"insert", "publish">>)

\* Faulty variant: the event is published, the insert is forgotten.
register_device_no_insert(table, listeners, live, boxes, info) ==
    IF info.device_id \in DOMAIN table
    THEN Outcome(table, listeners, boxes, "ok", <<>>, <<>>, <<>>)
    ELSE LET device == Device_new(info.device_id, info.ip_address)
             bus == send_event(listeners, live, boxes, DeviceDiscovered(device))
         IN  Outcome(table, bus.event_listeners, bus.inbox, "ok", <<>>,
                     <<DeviceDiscovered(device)>>, <<"publish">>)

\* Faulty variant: the device is inserted, its announcement is forgotten.
register_device_unannounced(table, listeners, live, boxes, info) ==
    IF info.device_id \in DOMAIN table
    THEN Outcome(table, listeners, boxes, "ok", <<>>, <<>>, <<>>)
    ELSE LET device == Device_new(info.device_id, info.ip_address)
         IN  Outcome(HashMap_insert(table, device.id, device), listeners, boxes,
                     "ok", <<>>, <<>>, <<"insert">>)

register_device(table, listeners, live, boxes, info) ==
    IF info.device_id \in DOMAIN table
    THEN Outcome(table, listeners, boxes, "ok", <<>>, <<>>, <<>>)
    ELSE LET device == Device_new(info.device_id, info.ip_address)
             bus == send_event(listeners, live, boxes, DeviceDiscovered(device))
         IN  Outcome(HashMap_insert(table, device.id, device), bus.event_listeners,
                     bus.inbox, "ok", <<>>, <<DeviceDiscovered(device)>>,
                     <<"insert", "publish">>)

\* Faulty variant: an unknown id is not an error.
send_packet_unknown_ok(table, device_id, packet, send_ok) ==
    IF device_id \in DOMAIN table
    THEN [result |-> IF send_ok THEN "ok" ELSE "send_error",
          sent |-> <<Sent(packet, SocketAddr(table[device_id].addr, CMD_SEND_PORT), send_ok)>>]
    ELSE [result |-> "ok", sent |-> <<>>]

\* DeviceManagerData::send_packet: result and sends.
send_packet(table, device_id, packet, send_ok) ==
    IF device_id \in DOMAIN table
    THEN [result |-> IF send_ok THEN "ok" ELSE "send_error",
          sent |-> <<Sent(packet, SocketAddr(table[device_id].addr, CMD_SEND_PORT), send_ok)>>]
    ELSE [result |-> "unknown_device", sent |-> <<>>]

\* Faulty variant: the battery level is fetched with its reply id.
FetchInfoCommands_reply_id ==
    <<DeviceName_GET_COMMAND_ID, Volume_GET_COMMAND_ID, PlayControl_GET_COMMAND_ID,
      PlayInfo_GET_COMMAND_ID, ChargingState_GET_COMMAND_ID,
      BatteryLevel_GET_REPLY_COMMAND_ID, PreChannel_GET_COMMAND_ID>>

\* The fetches of fetch_info, in the order of its statements.
FetchInfoCommands ==
    <<DeviceName_GET_COMMAND_ID, Volume_GET_COMMAND_ID, PlayControl_GET_COMMAND_ID,
      PlayInfo_GET_COMMAND_ID, ChargingState_GET_COMMAND_ID, BatteryLevel_GET_COMMAND_ID,
      PreChannel_GET_COMMAND_ID>>

\* fetch_info from its k-th statement on; the fail_at-th send fails (0: none).
RECURSIVE fetch_from(_, _, _, _)
fetch_from(table, device_id, k, fail_at) ==
    IF k > Len(FetchInfoCommands) THEN [result |-> "ok", sent |-> <<>>]
    ELSE LET r == send_packet(table, device_id, Command_fetch(FetchInfoCommands[k]),
                              k # fail_at)
         IN  IF r.result # "ok" THEN r
             ELSE LET rest == fetch_from(table, device_id, k + 1, fail_at)
                  IN  [result |-> rest.result, sent |-> r.sent \o rest.sent]

fetch_info(table, device_id, fail_at) == fetch_from(table, device_id, 1, fail_at)

\* u8::clamp(min, max)
clamp(v, min, max) == IF v < min THEN min ELSE IF v > max THEN max ELSE v

\* Faulty variant: the volume is not clamped.
set_volume_no_clamp(table, device_id, volume, send_ok) ==
    LET data == Volume_marshal_data(volume)
    IN  IF data.panic THEN [result |-> "panic", sent |-> <<>>]
        ELSE send_packet(table, device_id,
                         Command_set(Volume_SET_COMMAND_ID, data.bytes), send_ok)

set_volume(table, device_id, volume, send_ok) ==
    LET data == Volume_marshal_data(clamp(volume, 0, VOLUME_MAX))
    IN  IF data.panic THEN [result |-> "panic", sent |-> <<>>]
        ELSE send_packet(table, device_id,
                         Command_set(Volume_SET_COMMAND_ID, data.bytes), send_ok)

\* Faulty variant: the event carries the clone taken before the assignment.
update_field_stale_clone(device, field, decoded) ==
    IF decoded.ok
    THEN LET d == [device EXCEPT ![field] = Some(Unwrap(decoded.val))]
         IN  [err |-> FALSE, device |-> d, event |-> Some(DeviceUpdated(device))]
    ELSE [err |-> TRUE, device |-> device, event |-> None]

\* Faulty variant: the field is reset to absent when its payload does not
\* decode.
update_field_reset_on_error(device, field, decoded) ==
    IF decoded.ok
    THEN LET d == [device EXCEPT ![field] = Some(Unwrap(decoded.val))]
         IN  [err |-> FALSE, device |-> d, event |-> Some(DeviceUpdated(d))]
    ELSE [err |-> TRUE, device |-> [device EXCEPT ![field] = None], event |-> None]

\* One arm of handle_device_update: `device.field = Some(unmarshal(..)?)`,
\* then the DeviceUpdated of the clone.
update_field(device, field, decoded) ==
    CHOOSE arm \in
      {IF r.ok
       THEN LET d == [device EXCEPT ![field] = Some(Unwrap(r.val))]
            IN  [err |-> FALSE, device |-> d, event |-> Some(DeviceUpdated(d))]
       ELSE [err |-> TRUE, device |-> device, event |-> None] :
         r \in {decoded}} : TRUE

\* Faulty variant: a missing payload is read as the digit zero.
unwrap_or_zero(command_data) == IF IsSome(command_data) THEN Unwrap(command_data) ELSE <<48>>

\* packet.command_data.as_ref().unwrap_or(&vec![]).
unwrap_or_empty(command_data) == IF IsSome(command_data) THEN Unwrap(command_data) ELSE <<>>

handle_device_update(device, packet) ==
    LET data == unwrap_or_empty(packet.command_data)
    IN  CASE packet.command = DeviceName_GET_REPLY_COMMAND_ID ->
                update_field(device, "name", DeviceName_unmarshal_data(data))
          [] packet.command = Volume_GET_REPLY_COMMAND_ID ->
                update_field(device, "volume", Volume_unmarshal_data(data))
          [] packet.command = PlayControl_GET_REPLY_COMMAND_ID ->
                update_field(device, "play_status", PlayControl_unmarshal_data(data))
          [] packet.command = PlayInfo_GET_REPLY_COMMAND_ID ->
                update_field(device, "play_info", PlayInfo_unmarshal_data(data))
          [] packet.command = ChargingState_GET_REPLY_COMMAND_ID ->
                update_field(device, "charging_state", ChargingState_unmarshal_data(data))
          [] packet.command = BatteryLevel_GET_REPLY_COMMAND_ID
             \/ packet.command = BatteryLevel_NOTIFY_ID ->
                update_field(device, "battery_level", BatteryLevel_unmarshal_data(data))
          [] packet.command = PreChannel_GET_COMMAND_ID ->
                update_field(device, "pre_channels", PreChannel_unmarshal_data(data))
          [] OTHER -> [err |-> FALSE, device |-> device, event |-> None]

\* Faulty variant: the find does not compare the address.
find_by_addr_any(table, ip) ==
    IF DOMAIN table = {} THEN {None} ELSE {Some(id) : id \in DOMAIN table}

\* devices.values_mut().find(|d| d.addr == ip): the first device with that
\* address in the HashMap's iteration order, which the program does not
\* control: any of them, or None when there is none.
find_by_addr(table, ip) ==
    LET hits == {id \in DOMAIN table : table[id].addr = ip}
    IN  IF hits = {} THEN {None} ELSE {Some(id) : id \in hits}

\* Faulty variant: the record is updated and no event is published.
handle_incoming_packet_silent(table, listeners, live, boxes, packet, found) ==
    IF ~IsSome(found)
    THEN Outcome(table, listeners, boxes, "ok", <<>>, <<>>, <<>>)
    ELSE LET id == Unwrap(found)
             upd == handle_device_update(table[id], packet)
         IN  Outcome([table EXCEPT ![id] = upd.device], listeners, boxes,
                     IF upd.err THEN "decode_error" ELSE "ok", <<>>, <<>>, <<>>)

\* Faulty variant: every device with the sender's address is updated, the
\* event being that of the one found first.
handle_incoming_packet_every_match(table, listeners, live, boxes, packet, found) ==
    IF ~IsSome(found)
    THEN Outcome(table, listeners, boxes, "ok", <<>>, <<>>, <<>>)
    ELSE LET id == Unwrap(found)
             upd == handle_device_update(table[id], packet)
             all == [d \in DOMAIN table |->
                        IF table[d].addr = table[id].addr
                        THEN handle_device_update(table[d], packet).device
                        ELSE table[d]]
         IN  IF upd.err
             THEN Outcome(all, listeners, boxes, "decode_error", <<>>, <<>>, <<>>)
             ELSE IF ~IsSome(upd.event)
             THEN Outcome(table, listeners, boxes, "ok", <<>>, <<>>, <<>>)
             ELSE LET bus == send_event(listeners, live, boxes, Unwrap(upd.event))
                  IN  Outcome(all, bus.event_listeners, bus.inbox, "ok", <<>>,
                              <<Unwrap(upd.event)>>, <<"update", "publish">>)

\* handle_incoming_packet, `found` being the result of the find.  The device
\* is borrowed mutably from the table: what handle_device_update did to it
\* before it returned, an error included, is in the table.
handle_incoming_packet(table, listeners, live, boxes, packet, found) ==
    IF ~IsSome(found)
    THEN Outcome(table, listeners, boxes, "ok", <<>>, <<>>, <<>>)
    ELSE LET id == Unwrap(found)
         IN  CHOOSE out \in
               {IF upd.err
                THEN Outcome([table EXCEPT ![id] = upd.device], listeners, boxes,
                             "decode_error", <<>>, <<>>, <<>>)
                ELSE IF ~IsSome(upd.event)
                THEN Outcome(table, listeners, boxes, "ok", <<>>, <<>>, <<>>)
                ELSE LET bus == send_event(listeners, live, boxes, Unwrap(upd.event))
                     IN  Outcome([table EXCEPT ![id] = upd.device], bus.event_listeners,
                                 bus.inbox, "ok", <<>>, <<Unwrap(upd.event)>>,
                                 <<"update", "publish">>) :
                  upd \in {handle_device_update(table[id], packet)}} : TRUE

\* Faulty variant: the ack is always of type set.
ack_packet_type_set(packet) == Packet(COMMAND_TYPE_SET, ACK_COMMAND_ID, None)

\* The ack of a notification.
ack_packet(packet) == Packet(packet.command_type, ACK_COMMAND_ID, None)

\* Faulty variant: the packet is routed first and acknowledged afterwards.
handle_notification_route_first(table, listeners, live, boxes, ip, packet, send_ok, found) ==
    LET ack == Sent(ack_packet(packet), SocketAddr(ip, NOTIF_ACK_PORT), send_ok)
        out == handle_incoming_packet(table, listeners, live, boxes, packet, found)
    IN  IF out.result # "ok" THEN out
        ELSE [out EXCEPT !.sent = out.sent \o <<ack>>,
                         !.trace = out.trace \o <<"send">>,
                         !.result = IF send_ok THEN "ok" ELSE "send_error"]

\* Faulty variant: the result of the ack's send is dropped and the packet
\* is routed.
handle_notification_ignores_send_error(table, listeners, live, boxes, ip, packet, send_ok, found) ==
    LET ack == Sent(ack_packet(packet), SocketAddr(ip, NOTIF_ACK_PORT), send_ok)
        out == handle_incoming_packet(table, listeners, live, boxes, packet, found)
    IN  [out EXCEPT !.sent = <<ack>> \o out.sent,
                    !.trace = <<"send">> \o out.trace]

handle_notification(table, listeners, live, boxes, ip, packet, send_ok, found) ==
    LET ack == Sent(ack_packet(packet), SocketAddr(ip, NOTIF_ACK_PORT), send_ok)
    IN  IF ~send_ok
        THEN Outcome(table, listeners, boxes, "send_error", <<ack>>, <<>>, <<"send">>)
        ELSE CHOOSE routed \in
               {[out EXCEPT !.sent = <<ack>> \o out.sent,
                            !.trace = <<"send">> \o out.trace] :
                  out \in {handle_incoming_packet(table, listeners, live, boxes,
                                                   packet, found)}} : TRUE

handle_command_response(table, listeners, live, boxes, ip, packet, found) ==
    handle_incoming_packet(table, listeners, live, boxes, packet, found)

(***************************************************************************)
(* fake.rs: the fake network and the fake discovery.  A reply of the fake  *)
(* device is put on the channel of its port; the receiver of that port     *)
(* takes it as a packet from the address it was sent to.                   *)
(***************************************************************************)
FAKE_DEVICE_ADDR == "192.168.10.10"
FAKE_DEVICE_ID == "test-device"

\* The reply FakeDeviceDiscovery's thread sends, reduced to the two fields
\* register_device reads.
FakeDiscoveryReply == [device_id |-> FAKE_DEVICE_ID, ip_address |-> FAKE_DEVICE_ADDR]

\* "PLAY", "PAUSE", "STOP", "TOGGL" as the characters from_utf8_lossy gives.
S_PLAY == <<80, 76, 65, 89>>
S_PAUSE == <<80, 65, 85, 83, 69>>
S_STOP == <<83, 84, 79, 80>>
S_TOGGL == <<84, 79, 71, 71, 76>>

\* One call of FakePacketSender::reply: the channel's port, the address
\* the receiver will report, the packet.
FakeReply(ip, port, packet) == [from |-> SocketAddr(ip, port), packet |-> packet]

\* Faulty variant: the fetch of the play status is answered as well.
fake_fetch_replies_play_status_too(command, ip) ==
    IF command = DeviceName_GET_COMMAND_ID
    THEN <<FakeReply(ip, CMD_RESP_PORT,
                     Packet(COMMAND_TYPE_SET, DeviceName_SET_COMMAND_ID, Some(S_PRETTY_NAME)))>>
    ELSE IF command = Volume_GET_COMMAND_ID
    THEN <<FakeReply(ip, CMD_RESP_PORT,
                     Packet(COMMAND_TYPE_SET, Volume_SET_COMMAND_ID, Some(B_35)))>>
    ELSE IF command = PlayControl_GET_COMMAND_ID
    THEN <<FakeReply(ip, CMD_RESP_PORT,
                     Packet(COMMAND_TYPE_SET, PlayControl_GET_COMMAND_ID, Some(B_3)))>>
    ELSE <<>>

\* send_packet, a fetch: the name and the volume are answered on the
\* command-reply port, no other fetch is.
fake_fetch_replies(command, ip) ==
    IF command = DeviceName_GET_COMMAND_ID
    THEN <<FakeReply(ip, CMD_RESP_PORT,
                     Packet(COMMAND_TYPE_SET, DeviceName_SET_COMMAND_ID, Some(S_PRETTY_NAME)))>>
    ELSE IF command = Volume_GET_COMMAND_ID
    THEN <<FakeReply(ip, CMD_RESP_PORT,
                     Packet(COMMAND_TYPE_SET, Volume_SET_COMMAND_ID, Some(B_35)))>>
    ELSE <<>>

\* send_packet, a PlayControl set: the playing bit after the verb.
fake_now_playing(playing, command_data) ==
    IF command_data = S_PLAY THEN TRUE
    ELSE IF command_data \in {S_PAUSE, S_STOP} THEN FALSE
    ELSE IF command_data = S_TOGGL THEN ~playing
    ELSE playing

\* Faulty variant: an ack is answered with a notification of the volume.
FakePacketSender_send_packet_answers_ack(playing, packet, to) ==
    LET quiet == [panic |-> FALSE, count |-> Len(Packet_data(packet)),
                  playing |-> playing, replies |-> <<>>]
    IN  IF packet.command_type = COMMAND_TYPE_FETCH
        THEN [quiet EXCEPT !.replies = fake_fetch_replies(packet.command, to.ip)]
        ELSE IF packet.command_type = COMMAND_TYPE_SET
        THEN IF packet.command = Volume_SET_COMMAND_ID \/ packet.command = ACK_COMMAND_ID
             THEN [quiet EXCEPT !.replies =
                      <<FakeReply(to.ip, NOTIF_RECV_PORT,
                                  Packet(COMMAND_TYPE_SET, Volume_NOTIFY_ID,
                                         IF packet.command = ACK_COMMAND_ID THEN Some(B_35)
                                         ELSE packet.command_data))>>]
             ELSE IF packet.command = PlayControl_SET_COMMAND_ID
             THEN IF playing.poisoned \/ ~IsSome(packet.command_data)
                  THEN [panic |-> TRUE, count |-> 0,
                        playing |-> [playing EXCEPT !.poisoned = TRUE], replies |-> <<>>]
                  ELSE LET now_playing ==
                               fake_now_playing(playing.value,
                                                from_utf8_lossy(Unwrap(packet.command_data)))
                       IN  [quiet EXCEPT
                              !.playing.value = now_playing,
                              !.replies =
                                <<FakeReply(to.ip, NOTIF_RECV_PORT,
                                            Packet(COMMAND_TYPE_SET, PlayControl_NOTIFY_ID,
                                                   Some(<<IF now_playing THEN 48 ELSE 49>>)))>>]
             ELSE quiet
        ELSE quiet

\* FakePacketSender::send_packet on `playing`, the sender's mutex and its
\* bit: whether it panicked, the byte count it returned otherwise, the
\* mutex after it and its replies.  A PlayControl set without command_data
\* panics at the unwrap() with the guard of `playing` held, which poisons
\* that mutex; on the poisoned mutex every PlayControl set panics at
\* lock().unwrap() and replies nothing.
FakePacketSender_send_packet(playing, packet, to) ==
    LET quiet == [panic |-> FALSE, count |-> Len(Packet_data(packet)),
                  playing |-> playing, replies |-> <<>>]
    IN  IF packet.command_type = COMMAND_TYPE_FETCH
        THEN [quiet EXCEPT !.replies = fake_fetch_replies(packet.command, to.ip)]
        ELSE IF packet.command_type = COMMAND_TYPE_SET
        THEN IF packet.command = Volume_SET_COMMAND_ID
             THEN [quiet EXCEPT !.replies =
                      <<FakeReply(to.ip, NOTIF_RECV_PORT,
                                  Packet(COMMAND_TYPE_SET, Volume_NOTIFY_ID,
                                         packet.command_data))>>]
             ELSE IF packet.command = PlayControl_SET_COMMAND_ID
             THEN IF playing.poisoned \/ ~IsSome(packet.command_data)
                  THEN [panic |-> TRUE, count |-> 0,
                        playing |-> [playing EXCEPT !.poisoned = TRUE], replies |-> <<>>]
                  ELSE LET now_playing ==
                               fake_now_playing(playing.value,
                                                from_utf8_lossy(Unwrap(packet.command_data)))
                       IN  [quiet EXCEPT
                              !.playing.value = now_playing,
                              !.replies =
                                <<FakeReply(to.ip, NOTIF_RECV_PORT,
                                            Packet(COMMAND_TYPE_SET, PlayControl_NOTIFY_ID,
                                                   Some(<<IF now_playing THEN 48 ELSE 49>>)))>>]
             ELSE quiet
        ELSE quiet

\* FakeNetwork::packet_sender: playing is Mutex::new(Cell::new(false)), the
\* bit and whether the mutex is poisoned.
FakeNetwork_packet_sender == [value |-> FALSE, poisoned |-> FALSE]

\* The channels of the fake network by port, each with what was sent to it
\* and not yet received.
FakePorts == {CMD_RESP_PORT, NOTIF_RECV_PORT}
fake_enqueue(queue, replies) ==
    [port \in FakePorts |->
        queue[port] \o SelectSeq(replies, LAMBDA r : r.from.port = port)]

\* The sender's mutex and bit after the first k sends of one handler, made
\* in order with the fake sender.
RECURSIVE fake_playing_after(_, _, _)
fake_playing_after(playing, sent, k) ==
    IF k = 0 THEN playing
    ELSE CHOOSE after \in
           {FakePacketSender_send_packet(before, sent[k].packet, sent[k].to).playing :
              before \in {fake_playing_after(playing, sent, k - 1)}} : TRUE

\* The replies to the first k sends, in order.
RECURSIVE fake_replies_upto(_, _, _)
fake_replies_upto(playing, sent, k) ==
    IF k = 0 THEN <<>>
    ELSE fake_replies_upto(playing, sent, k - 1)
         \o (CHOOSE replies \in
                {FakePacketSender_send_packet(before, sent[k].packet, sent[k].to).replies :
                   before \in {fake_playing_after(playing, sent, k - 1)}} : TRUE)

\* The sends of one handler through the fake sender: the sender's mutex
\* and the queues after them.  A send that panics ends them: the sends before
\* it have had their effect, and the panicking send has poisoned the
\* sender's mutex.
fake_sends(playing, queue, sent) ==
    LET panics == {k \in 1..Len(sent) :
                     FakePacketSender_send_packet(playing, sent[k].packet, sent[k].to).panic}
    IN  CHOOSE after \in
          {[panic |-> done < Len(sent),
            playing |-> fake_playing_after(playing, sent,
                                           IF done < Len(sent) THEN done + 1 ELSE done),
            queue |-> fake_enqueue(queue, fake_replies_upto(playing, sent, done))] :
             done \in {IF panics = {} THEN Len(sent)
                       ELSE (CHOOSE k \in panics : \A other \in panics : k <= other) - 1}} :
          TRUE

(***************************************************************************)
(* The state machine.                                                      *)
(***************************************************************************)
NoPacket == Packet(0, 0, None)

\* The record of a handler: what it was called with, the manager's data
\* before it, and what it did.
Call(op, device_id, ip, packet, volume, out) ==
    [op |-> op, device_id |-> device_id, ip |-> ip, packet |-> packet, volume |-> volume,
     before |-> devices, listeners_before |-> event_listeners,
     result |-> out.result, sent |-> out.sent, events |-> out.events,
     trace |-> out.trace]

Idle ==
    [op |-> "idle", device_id |-> "", ip |-> "", packet |-> NoPacket, volume |-> 0,
     before |-> EmptyTable, listeners_before |-> <<>>,
     result |-> "none", sent |-> <<>>, events |-> <<>>, trace |-> <<>>]

Init ==
    /\ devices = EmptyTable
    /\ event_listeners = <<>>
    /\ receivers = {}
    /\ inbox = [c \in Channels |-> <<>>]
    /\ last = Idle
    /\ announced = [id \in DeviceIds |-> 0]
    /\ changes = 0
    /\ BusParked /\ WorkersParked /\ CodecParked /\ FakeParked

\* A handler may start: the mutex is free (and the run is within its bound;
\* a handler that publishes nothing leads back to the state it started in).
CanLock == last.op = "idle" /\ changes < MaxChanges

CountDiscovered(events, id) ==
    Cardinality({i \in 1..Len(events) :
                   events[i].kind = "DeviceDiscovered" /\ events[i].device.id = id})

\* The handler's effects on the manager's data and on the channels.
Commit(out) ==
    /\ devices' = out.devices
    /\ event_listeners' = out.event_listeners
    /\ inbox' = out.inbox
    /\ announced' = [id \in DeviceIds |-> announced[id] + CountDiscovered(out.events, id)]
    /\ changes' = changes + (IF out.events = <<>> THEN 0 ELSE 1)
    /\ UNCHANGED receivers

\* An API call that only sends.
AsOutcome(r) ==
    Outcome(devices, event_listeners, inbox, r.result, r.sent, <<>>,
            [i \in 1..Len(r.sent) |-> "send"])

\* discovery_thread: poll() returned a reply, register_device under the lock.
Register(info) ==
    /\ CanLock
    /\ LET out == register_device(devices, event_listeners, receivers, inbox, info)
       IN  /\ Commit(out)
           /\ last' = Call("register_device", info.device_id, info.ip_address, NoPacket, 0, out)
           /\ UNCHANGED <<busVars, workerVars, codecVars, fakeVars>>

\* notification_thread: a packet received on port 3333 from `ip`.
Notification(ip, packet, send_ok) ==
    /\ CanLock
    /\ \E found \in find_by_addr(devices, ip) :
         LET out == handle_notification(devices, event_listeners, receivers, inbox,
                                        ip, packet, send_ok, found)
         IN  /\ Commit(out)
             /\ last' = Call("handle_notification", "", ip, packet, 0, out)
             /\ UNCHANGED <<busVars, workerVars, codecVars, fakeVars>>

\* command_reply_thread: a packet received on port 7778 from `ip`.
CommandReply(ip, packet) ==
    /\ CanLock
    /\ \E found \in find_by_addr(devices, ip) :
         LET out == handle_command_response(devices, event_listeners, receivers, inbox,
                                            ip, packet, found)
         IN  /\ Commit(out)
             /\ last' = Call("handle_command_response", "", ip, packet, 0, out)
             /\ UNCHANGED <<busVars, workerVars, codecVars, fakeVars>>

Listen ==
    /\ CanLock
    /\ \E c \in Channels :
         /\ c \notin receivers
         /\ \A i \in 1..Len(event_listeners) : event_listeners[i] # c
         /\ inbox[c] = <<>>
         /\ \A d \in Channels : d < c => (d \in receivers \/ inbox[d] # <<>>
                                          \/ \E i \in 1..Len(event_listeners) : event_listeners[i] = d)
         /\ event_listeners' = Append(event_listeners, c)
         /\ receivers' = receivers \cup {c}
         /\ last' = Call("listen", "", "", NoPacket, 0,
                         Outcome(devices, event_listeners, inbox, "ok", <<>>, <<>>, <<>>))
         /\ changes' = changes + 1
         /\ UNCHANGED <<devices, inbox, announced>>
         /\ UNCHANGED <<busVars, workerVars, codecVars, fakeVars>>

FetchInfo(device_id, fail_at) ==
    /\ CanLock
    /\ LET out == AsOutcome(fetch_info(devices, device_id, fail_at))
       IN  /\ Commit(out)
           /\ last' = Call("fetch_info", device_id, "", NoPacket, 0, out)
           /\ UNCHANGED <<busVars, workerVars, codecVars, fakeVars>>

SetVolume(device_id, volume, send_ok) ==
    /\ CanLock
    /\ LET out == AsOutcome(set_volume(devices, device_id, volume, send_ok))
       IN  /\ Commit(out)
           /\ last' = Call("set_volume", device_id, "", NoPacket, volume, out)
           /\ UNCHANGED <<busVars, workerVars, codecVars, fakeVars>>

SendPacket(device_id, packet, send_ok) ==
    /\ CanLock
    /\ LET out == AsOutcome(send_packet(devices, device_id, packet, send_ok))
       IN  /\ Commit(out)
           /\ last' = Call("send_packet", device_id, "", packet, 0, out)
           /\ UNCHANGED <<busVars, workerVars, codecVars, fakeVars>>

\* A subscriber drops its Receiver.  The Receiver is the subscriber's own
\* value: dropping it takes no lock, so it can happen while a handler still
\* holds the mutex.
DropReceiver(c) ==
    /\ c \in receivers
    /\ receivers' = receivers \ {c}
    /\ inbox' = [inbox EXCEPT ![c] = <<>>]
    /\ UNCHANGED <<devices, event_listeners, last, announced, changes>>
    /\ UNCHANGED <<busVars, workerVars, codecVars, fakeVars>>

\* The MutexGuard goes out of scope.
Unlock ==
    /\ last.op # "idle"
    /\ last' = Idle
    /\ UNCHANGED <<devices, event_listeners, receivers, inbox, announced, changes>>
    /\ UNCHANGED <<busVars, workerVars, codecVars, fakeVars>>

Next ==
    \/ \E info \in DiscoveryReplies : Register(info)
    \/ \E ip \in IpAddrs, packet \in InPackets, send_ok \in BOOLEAN :
         Notification(ip, packet, send_ok)
    \/ \E ip \in IpAddrs, packet \in InPackets : CommandReply(ip, packet)
    \/ Listen
    \/ \E id \in DeviceIds, fail_at \in 0..Len(FetchInfoCommands) : FetchInfo(id, fail_at)
    \/ \E id \in DeviceIds, v \in Volumes, send_ok \in BOOLEAN : SetVolume(id, v, send_ok)
    \/ \E id \in DeviceIds, packet \in ApiPackets, send_ok \in BOOLEAN :
         SendPacket(id, packet, send_ok)
    \/ \E c \in Channels : DropReceiver(c)
    \/ Unlock

Spec == Init /\ [][Next]_vars

(***************************************************************************)
(* The event bus with several subscribers.  The same handlers, under the   *)
(* same mutex, with the history of the publications: `published` is every  *)
(* event send_event was called with, `listen_at` the length of that        *)
(* history when listen() pushed the channel's sender.                      *)
(***************************************************************************)
BusChannels == 1..MaxSubscribers

BusReplies ==
    {[device_id |-> "test-device", ip_address |-> "192.168.10.10"],
     [device_id |-> "0123456789ab", ip_address |-> "192.168.178.75"]}

\* A volume and a play status, both decodable.
BusPackets ==
    {Packet(COMMAND_TYPE_SET, Volume_NOTIFY_ID, Some(B_3)),
     Packet(COMMAND_TYPE_SET, PlayControl_NOTIFY_ID, Some(B_3))}

BusInit ==
    /\ devices = EmptyTable
    /\ event_listeners = <<>>
    /\ receivers = {}
    /\ inbox = [c \in BusChannels |-> <<>>]
    /\ last = Idle
    /\ announced = [id \in DeviceIds |-> 0]
    /\ changes = 0
    /\ published = <<>>
    /\ listen_at = [c \in BusChannels |-> 0]
    /\ WorkersParked /\ CodecParked /\ FakeParked

BusCanLock == last.op = "idle" /\ Len(published) < MaxPublished

\* The handler's effects, and its publications appended to the history.
BusCommit(out) ==
    /\ Commit(out)
    /\ published' = published \o out.events
    /\ UNCHANGED <<listen_at, workerVars, codecVars, fakeVars>>

BusRegister(info) ==
    /\ BusCanLock
    /\ LET out == register_device(devices, event_listeners, receivers, inbox, info)
       IN  /\ BusCommit(out)
           /\ last' = Call("register_device", info.device_id, info.ip_address, NoPacket, 0, out)

BusNotification(ip, packet, send_ok) ==
    /\ BusCanLock
    /\ \E found \in find_by_addr(devices, ip) :
         LET out == handle_notification(devices, event_listeners, receivers, inbox,
                                        ip, packet, send_ok, found)
         IN  /\ BusCommit(out)
             /\ last' = Call("handle_notification", "", ip, packet, 0, out)

BusCommandReply(ip, packet) ==
    /\ BusCanLock
    /\ \E found \in find_by_addr(devices, ip) :
         LET out == handle_command_response(devices, event_listeners, receivers, inbox,
                                            ip, packet, found)
         IN  /\ BusCommit(out)
             /\ last' = Call("handle_command_response", "", ip, packet, 0, out)

\* Faulty variant: listen() puts the DeviceDiscovered of the devices of the
\* table in the new channel.
BusListen_replays ==
    /\ last.op = "idle"
    /\ \E c \in BusChannels :
         /\ c \notin receivers
         /\ \A i \in 1..Len(event_listeners) : event_listeners[i] # c
         /\ \A d \in BusChannels : d < c =>
               (d \in receivers \/ \E i \in 1..Len(event_listeners) : event_listeners[i] = d)
         /\ event_listeners' = Append(event_listeners, c)
         /\ receivers' = receivers \cup {c}
         /\ inbox' = [inbox EXCEPT ![c] =
                        SelectSeq(published, LAMBDA e : e.kind = "DeviceDiscovered")]
         /\ listen_at' = [listen_at EXCEPT ![c] = Len(published)]
         /\ last' = Call("listen", "", "", NoPacket, 0,
                         Outcome(devices, event_listeners, inbox, "ok", <<>>, <<>>, <<>>))
         /\ UNCHANGED <<devices, announced, changes, published, workerVars, codecVars, fakeVars>>

\* listen(): a new channel, its sender pushed at the end of the list.
BusListen ==
    /\ last.op = "idle"
    /\ \E c \in BusChannels :
         /\ c \notin receivers
         /\ \A i \in 1..Len(event_listeners) : event_listeners[i] # c
         /\ \A d \in BusChannels : d < c =>
               (d \in receivers \/ \E i \in 1..Len(event_listeners) : event_listeners[i] = d)
         /\ event_listeners' = Append(event_listeners, c)
         /\ receivers' = receivers \cup {c}
         /\ inbox' = [inbox EXCEPT ![c] = <<>>]
         /\ listen_at' = [listen_at EXCEPT ![c] = Len(published)]
         /\ last' = Call("listen", "", "", NoPacket, 0,
                         Outcome(devices, event_listeners, inbox, "ok", <<>>, <<>>, <<>>))
         /\ UNCHANGED <<devices, announced, changes, published, workerVars, codecVars, fakeVars>>

BusNext ==
    \/ \E info \in BusReplies : BusRegister(info)
    \/ \E ip \in IpAddrs, packet \in BusPackets, send_ok \in BOOLEAN :
         BusNotification(ip, packet, send_ok)
    \/ \E ip \in IpAddrs, packet \in BusPackets : BusCommandReply(ip, packet)
    \/ BusListen
    \/ \E c \in BusChannels : DropReceiver(c)
    \/ Unlock

BusSpec == BusInit /\ [][BusNext]_vars

(***************************************************************************)
(* The worker threads.  DeviceManager::new spawns three threads, each      *)
(* running thread_manager around one worker function.  `worker[w]` is      *)
(* where thread w stands:                                                  *)
(*   "start"     thread_manager, top of its loop, before it calls the      *)
(*               worker function                                           *)
(*   "setup"     in the worker function, before discover() or              *)
(*               packet_receiver(port)                                     *)
(*   "loop"      in the worker function's receive loop                     *)
(*   "failed"    the worker function returned Err to thread_manager        *)
(*   "sleeping"  thread_manager printed the error and sleeps 5 s           *)
(* with the counts of the calls and of the lines printed, the outcome of   *)
(* every finished iteration of the loop of the current invocation, the     *)
(* count of the sends of the thread's handler that the socket refused,     *)
(* and `handler_result`: what packet_func returned, the guard dropped,     *)
(* while the loop has not matched it yet.                                  *)
(***************************************************************************)
Workers == {"discovery", "notification", "command reply"}
PacketWorkers == {"notification", "command reply"}

WorkerReplies == BusReplies

\* A volume that decodes and one that does not.
WorkerPackets ==
    {Packet(COMMAND_TYPE_SET, Volume_NOTIFY_ID, Some(B_3)),
     Packet(COMMAND_TYPE_SET, Volume_NOTIFY_ID, Some(B_PLAY_INFO))}

\* What an iteration of a receive loop can meet: the socket's recv_from
\* fails, the datagram does not parse, or it parses and is handed on.
ReceiveErrors == {"recv_error", "parse_error"}

\* Faulty variant: the supervisor gives up after the first error.
thread_manager_give_up(result) ==
    IF result = "err" THEN [pc |-> "exited", logged |-> 1]
    ELSE [pc |-> "unreachable", logged |-> 0]

\* thread_manager, the match on the worker function's result: Err is
\* printed and slept on, anything else is unreachable!().
thread_manager(result) ==
    IF result = "err" THEN [pc |-> "sleeping", logged |-> 1]
    ELSE [pc |-> "unreachable", logged |-> 0]

\* Faulty variant: a poll() error starts the function's body again.
discovery_thread_poll_rediscover(outcome) ==
    IF outcome = "ok" THEN [pc |-> "loop", logged |-> 0]
    ELSE [pc |-> "setup", logged |-> 1]

\* Faulty variant: a poll() error ends the function with Ok(()).
discovery_thread_poll_returns(outcome) ==
    IF outcome = "ok" THEN [pc |-> "loop", logged |-> 0]
    ELSE [pc |-> "returned", logged |-> 1]

\* discovery_thread, the match on poll(): Ok is registered, Err is printed
\* and the loop continues.
discovery_thread_poll(outcome) ==
    IF outcome = "ok" THEN [pc |-> "loop", logged |-> 0]
    ELSE [pc |-> "loop", logged |-> 1]

\* Faulty variant: a receive error is returned with `?`.
packet_receiver_thread_receive_propagates(outcome) ==
    IF outcome \in ReceiveErrors THEN [pc |-> "failed", logged |-> 0]
    ELSE IF outcome = "ok" THEN [pc |-> "loop", logged |-> 0]
    ELSE [pc |-> "loop", logged |-> 1]

\* Faulty variant: a handler error is returned with `?`.
packet_receiver_thread_handler_propagates(outcome) ==
    IF outcome \in ReceiveErrors THEN [pc |-> "loop", logged |-> 1]
    ELSE IF outcome = "ok" THEN [pc |-> "loop", logged |-> 0]
    ELSE [pc |-> "failed", logged |-> 0]

\* packet_receiver_thread, the match on receive_packet(): an Err is
\* printed; an Ok is handed to packet_func, whose Err is printed; the loop
\* continues in every case.
packet_receiver_thread_receive(outcome) ==
    IF outcome \in ReceiveErrors THEN [pc |-> "loop", logged |-> 1]
    ELSE IF outcome = "ok" THEN [pc |-> "loop", logged |-> 0]
    ELSE [pc |-> "loop", logged |-> 1]

WorkerStart ==
    [pc |-> "start", invocations |-> 0, failures |-> 0, supervisor_logs |-> 0,
     loop_logs |-> 0, setup_calls |-> 0, trace |-> <<>>, send_failures |-> 0,
     handler_result |-> None]

WorkerInit ==
    /\ devices = EmptyTable
    /\ event_listeners = <<>>
    /\ receivers = {}
    /\ inbox = [c \in Channels |-> <<>>]
    /\ last = Idle
    /\ announced = [id \in DeviceIds |-> 0]
    /\ changes = 0
    /\ published = <<>>
    /\ listen_at = <<>>
    /\ worker = [w \in Workers |-> WorkerStart]
    /\ CodecParked /\ FakeParked

RECURSIVE SumOver(_, _)
SumOver(f, S) ==
    IF S = {} THEN 0
    ELSE LET x == CHOOSE y \in S : TRUE IN f[x] + SumOver(f, S \ {x})

TotalFailures == SumOver([w \in Workers |-> worker[w].failures], Workers)
TotalIterations ==
    SumOver([w \in Workers |-> Len(worker[w].trace) + Len(worker[w].handler_result)],
            Workers)

managerVars == <<devices, event_listeners, receivers, inbox, last, announced, changes>>

\* thread_manager calls the worker function.
Invoke(w) ==
    /\ worker[w].pc = "start"
    /\ worker' = [worker EXCEPT ![w].pc = "setup",
                                ![w].invocations = @ + 1,
                                ![w].setup_calls = 0,
                                ![w].trace = <<>>]
    /\ UNCHANGED <<managerVars, busVars, codecVars, fakeVars>>

\* discover(), or packet_receiver(port), returns Ok: the function enters
\* its loop.
SetupOk(w) ==
    /\ worker[w].pc = "setup"
    /\ worker' = [worker EXCEPT ![w].pc = "loop", ![w].setup_calls = @ + 1]
    /\ UNCHANGED <<managerVars, busVars, codecVars, fakeVars>>

\* discover(), or packet_receiver(port), returns Err: `?` returns it.
SetupFail(w) ==
    /\ worker[w].pc = "setup"
    /\ TotalFailures < MaxFailures
    /\ worker' = [worker EXCEPT ![w].pc = "failed", ![w].setup_calls = @ + 1,
                                ![w].failures = @ + 1]
    /\ UNCHANGED <<managerVars, busVars, codecVars, fakeVars>>

\* thread_manager matches what the worker function returned: "failed" is
\* its Err, "returned" would be its Ok(()).
Supervise(w) ==
    /\ worker[w].pc \in {"failed", "returned"}
    /\ LET r == thread_manager(IF worker[w].pc = "failed" THEN "err" ELSE "ok")
       IN  worker' = [worker EXCEPT ![w].pc = r.pc, ![w].supervisor_logs = @ + r.logged]
    /\ UNCHANGED <<managerVars, busVars, codecVars, fakeVars>>

\* The sleep of 5 s ends.
Wake(w) ==
    /\ worker[w].pc = "sleeping"
    /\ worker' = [worker EXCEPT ![w].pc = "start"]
    /\ UNCHANGED <<managerVars, busVars, codecVars, fakeVars>>

\* The handler's effects, its publications appended to the history, and
\* the mutex released.
WorkerCommit(out) ==
    /\ Commit(out)
    /\ published' = published \o out.events
    /\ UNCHANGED <<last, listen_at, codecVars, fakeVars>>

\* The worker's record after an iteration with outcome `outcome`, `r` being
\* what the loop does on it.
AfterIteration(w, outcome, r) ==
    [worker EXCEPT ![w].pc = r.pc, ![w].loop_logs = @ + r.logged,
                   ![w].trace = Append(@, outcome),
                   ![w].failures = @ + (IF r.pc = "failed" THEN 1 ELSE 0)]

\* discovery_thread, an iteration whose poll() returns Ok(info).
PollReply(info) ==
    /\ worker["discovery"].pc = "loop"
    /\ TotalIterations < MaxIterations
    /\ LET out == register_device(devices, event_listeners, receivers, inbox, info)
       IN  /\ WorkerCommit(out)
           /\ worker' = AfterIteration("discovery", "ok", discovery_thread_poll("ok"))

\* discovery_thread, an iteration whose poll() returns Err.
PollError(outcome) ==
    /\ worker["discovery"].pc = "loop"
    /\ TotalIterations < MaxIterations
    /\ worker' = AfterIteration("discovery", outcome, discovery_thread_poll(outcome))
    /\ UNCHANGED <<managerVars, busVars, codecVars, fakeVars>>

\* packet_receiver_thread, an iteration whose receive_packet() returns Err.
ReceiveError(w, outcome) ==
    /\ worker[w].pc = "loop"
    /\ worker[w].handler_result = None
    /\ TotalIterations < MaxIterations
    /\ worker' = AfterIteration(w, outcome, packet_receiver_thread_receive(outcome))
    /\ UNCHANGED <<managerVars, busVars, codecVars, fakeVars>>

\* notification_thread, an iteration that receives a packet: packet_func
\* takes the mutex, runs the handler and returns its result, the guard
\* dropped.
ReceiveNotification(ip, packet, send_ok) ==
    /\ worker["notification"].pc = "loop"
    /\ worker["notification"].handler_result = None
    /\ TotalIterations < MaxIterations
    /\ \E found \in find_by_addr(devices, ip) :
         LET out == handle_notification(devices, event_listeners, receivers, inbox,
                                        ip, packet, send_ok, found)
         IN  /\ WorkerCommit(out)
             /\ worker' = [worker EXCEPT
                             !["notification"].handler_result = Some(out.result),
                             !["notification"].send_failures =
                                 @ + Cardinality({i \in 1..Len(out.sent) :
                                                    ~out.sent[i].ok})]

\* command_reply_thread, an iteration that receives a packet: the same
\* with its handler.
ReceiveCommandReply(ip, packet) ==
    /\ worker["command reply"].pc = "loop"
    /\ worker["command reply"].handler_result = None
    /\ TotalIterations < MaxIterations
    /\ \E found \in find_by_addr(devices, ip) :
         LET out == handle_command_response(devices, event_listeners, receivers, inbox,
                                            ip, packet, found)
         IN  /\ WorkerCommit(out)
             /\ worker' = [worker EXCEPT
                             !["command reply"].handler_result = Some(out.result)]

\* packet_receiver_thread, the `if let Err(e)` on what packet_func
\* returned: an Err is printed, and the iteration is over.
HandlerReturned(w) ==
    /\ worker[w].pc = "loop"
    /\ worker[w].handler_result # None
    /\ worker' = [AfterIteration(w, Unwrap(worker[w].handler_result),
                                 packet_receiver_thread_receive(
                                     Unwrap(worker[w].handler_result)))
                    EXCEPT ![w].handler_result = None]
    /\ UNCHANGED <<managerVars, busVars, codecVars, fakeVars>>

\* A step of thread w that waits for no datagram.
WorkerStep(w) ==
    Invoke(w) \/ SetupOk(w) \/ SetupFail(w) \/ Supervise(w) \/ Wake(w)
    \/ (w \in PacketWorkers /\ HandlerReturned(w))

WorkerNext ==
    \/ \E w \in Workers : Invoke(w)
    \/ \E w \in Workers : SetupOk(w)
    \/ \E w \in Workers : SetupFail(w)
    \/ \E w \in Workers : Supervise(w)
    \/ \E w \in Workers : Wake(w)
    \/ \E info \in WorkerReplies : PollReply(info)
    \/ \E outcome \in ReceiveErrors : PollError(outcome)
    \/ \E w \in PacketWorkers, outcome \in ReceiveErrors : ReceiveError(w, outcome)
    \/ \E ip \in IpAddrs, packet \in WorkerPackets, send_ok \in BOOLEAN :
         ReceiveNotification(ip, packet, send_ok)
    \/ \E ip \in IpAddrs, packet \in WorkerPackets : ReceiveCommandReply(ip, packet)
    \/ \E w \in PacketWorkers : HandlerReturned(w)

\* Every thread is scheduled, a call returns and a sleep ends.
WorkerSpec ==
    /\ WorkerInit /\ [][WorkerNext]_vars
    /\ \A w \in Workers : WF_vars(WorkerStep(w))

(***************************************************************************)
(* The packet codec: a packet is encoded with Packet::data and the frame   *)
(* is parsed with Packet::parse.                                           *)
(***************************************************************************)
\* Types and commands at the ends and in the middle of their ranges;
\* no payload, an empty one, one of a zero byte, text, bytes of the magic.
CodecPackets ==
    [command_type : {0, COMMAND_TYPE_FETCH, COMMAND_TYPE_SET, 255},
     command : {0, ACK_COMMAND_ID, 255, BatteryLevel_GET_COMMAND_ID,
                ChargingState_GET_COMMAND_ID, 65535},
     command_data : {None, Some(<<>>), Some(<<0>>), Some(B_35), Some(<<255, 170, 170>>)}]

CodecInit ==
    /\ devices = EmptyTable
    /\ event_listeners = <<>>
    /\ receivers = {}
    /\ inbox = [c \in Channels |-> <<>>]
    /\ last = Idle
    /\ announced = [id \in DeviceIds |-> 0]
    /\ changes = 0
    /\ BusParked /\ WorkersParked /\ FakeParked
    /\ \E packet \in CodecPackets :
         codec = [stage |-> "packet", packet |-> packet, frame |-> <<>>, parsed |-> Err]

Encode ==
    /\ codec.stage = "packet"
    /\ codec' = [codec EXCEPT !.stage = "frame", !.frame = Packet_data(codec.packet)]
    /\ UNCHANGED <<managerVars, busVars, workerVars, fakeVars>>

Parse ==
    /\ codec.stage = "frame"
    /\ codec' = [codec EXCEPT !.stage = "parsed", !.parsed = Packet_parse(codec.frame)]
    /\ UNCHANGED <<managerVars, busVars, workerVars, fakeVars>>

CodecNext == Encode \/ Parse

CodecSpec == CodecInit /\ [][CodecNext]_vars

(***************************************************************************)
(* The command catalog's marshal_data and unmarshal_data: a value of a     *)
(* command's request type is encoded, and the bytes are decoded with the   *)
(* same command.                                                           *)
(***************************************************************************)
CommandKinds ==
    {"Volume", "PlayControl", "ChargingState", "DeviceName", "PowerMode", "FirmwareUpdate"}

\* "Pretty name" and strings of code points of one to four bytes each.
Names ==
    {<<>>, S_PRETTY_NAME, <<233>>, <<8364>>, <<128512>>, <<80, 233, 8364>>,
     <<65533>>, <<127, 128, 2047, 2048, 65535, 65536>>}

\* The values of each command's request type: every u8 for Volume, the
\* eight verbs, the strings above, () for the others.
CommandInputs(kind) ==
    CASE kind = "Volume" -> 0..U8_MAX
      [] kind = "PlayControl" -> {PlayControlCommands[i] : i \in DOMAIN PlayControlCommands}
      [] kind = "DeviceName" -> Names
      [] OTHER -> {UNIT}

\* Self::marshal_data of Command::packet, by command.
Command_marshal_data(kind, value) ==
    CASE kind = "Volume" -> Volume_marshal_data(value)
      [] kind = "PlayControl" -> [panic |-> FALSE, bytes |-> PlayControl_marshal_data(value)]
      [] kind = "DeviceName" -> [panic |-> FALSE, bytes |-> DeviceName_marshal_data(value)]
      [] kind = "ChargingState" -> [panic |-> FALSE, bytes |-> ChargingState_marshal_data(value)]
      [] kind = "PowerMode" -> [panic |-> FALSE, bytes |-> PowerMode_marshal_data(value)]
      [] kind = "FirmwareUpdate" -> [panic |-> FALSE, bytes |-> FirmwareUpdate_marshal_data(value)]

\* Self::unmarshal_data, by command.
Command_unmarshal_data(kind, data) ==
    CASE kind = "Volume" -> Volume_unmarshal_data(data)
      [] kind = "PlayControl" -> PlayControl_unmarshal_data(data)
      [] kind = "DeviceName" -> DeviceName_unmarshal_data(data)
      [] kind = "ChargingState" -> ChargingState_unmarshal_data(data)
      [] kind = "PowerMode" -> PowerMode_unmarshal_data(data)
      [] kind = "FirmwareUpdate" -> FirmwareUpdate_unmarshal_data(data)

CommandInit ==
    /\ devices = EmptyTable
    /\ event_listeners = <<>>
    /\ receivers = {}
    /\ inbox = [c \in Channels |-> <<>>]
    /\ last = Idle
    /\ announced = [id \in DeviceIds |-> 0]
    /\ changes = 0
    /\ BusParked /\ WorkersParked /\ FakeParked
    /\ \E kind \in CommandKinds : \E value \in CommandInputs(kind) :
         codec = [stage |-> "value", kind |-> kind, value |-> value, bytes |-> <<>>,
                  decoded |-> Err]

\* Command::set: marshal_data returns the payload or panics.
Marshal ==
    /\ codec.stage = "value"
    /\ LET marshalled == Command_marshal_data(codec.kind, codec.value)
       IN  codec' = [codec EXCEPT !.stage = IF marshalled.panic THEN "panicked" ELSE "bytes",
                                  !.bytes = marshalled.bytes]
    /\ UNCHANGED <<managerVars, busVars, workerVars, fakeVars>>

Unmarshal ==
    /\ codec.stage = "bytes"
    /\ codec' = [codec EXCEPT !.stage = "decoded",
                               !.decoded = Command_unmarshal_data(codec.kind, codec.bytes)]
    /\ UNCHANGED <<managerVars, busVars, workerVars, fakeVars>>

CommandNext == Marshal \/ Unmarshal

CommandSpec == CommandInit /\ [][CommandNext]_vars

(***************************************************************************)
(* DiscoveryReply::parse on the datagrams a discovery socket can receive.  *)
(***************************************************************************)

\* The ten headers of parse_test's DATA, in its order.
TestHeaders ==
    <<Header(HeaderNames.DeviceName, <<68, 101, 118, 105, 99, 101, 32, 78, 97, 109, 101, 95, 57, 57, 57, 57, 45, 72, 48, 48, 50, 48, 48, 48, 48, 45, 48, 55, 45, 49, 50, 51, 52, 53>>),
      Header(HeaderNames.DeviceID, <<48, 49, 50, 51, 52, 53, 54, 55, 56, 57, 97, 98>>),
      Header(HeaderNames.DeviceState, <<70, 44, 83, 44, 80>>),
      Header(HeaderNames.PORT, <<55, 55, 55, 55>>),
      Header(HeaderNames.ZoneID, <<>>),
      Header(HeaderNames.Creator, <<>>),
      Header(HeaderNames.IPAddr, <<49, 57, 50, 46, 49, 54, 56, 46, 49, 55, 56, 46, 55, 53>>),
      Header(HeaderNames.ColorCode, <<50, 48, 48, 51>>),
      Header(HeaderNames.FWVersion, <<56, 48, 57, 59, 49, 44, 49, 59, 49, 44, 49>>),
      Header(HeaderNames.StereoPairID, <<>>)>>

\* HOST: 239.255.255.250:1800, a header the parser does not know.
UnknownHeader == Header(HeaderNames.HOST, <<50, 51, 57, 46, 50, 53, 53, 46, 50, 53, 53, 46, 50, 53, 48, 58, 49, 56, 48, 48>>)

\* <[u8]>::to_ascii_lowercase: the name in lower case.
to_ascii_lowercase(name) ==
    [i \in 1..Len(name) |-> IF name[i] >= 65 /\ name[i] <= 90 THEN name[i] + 32 ELSE name[i]]

\* 7777, 65535, 0; then 65536, -1, nothing, 77a
GoodPortValues == {<<55, 55, 55, 55>>, <<54, 53, 53, 51, 53>>, <<48>>}
PortValues == GoodPortValues \cup {<<54, 53, 53, 51, 54>>, <<45, 49>>, <<>>, <<55, 55, 97>>}
\* 192.168.178.75, 192.168.10.10, ::1, fe80::1, ::ffff:192.168.10.10; then
\* localhost, 192.168.178, 256.1.1.1, nothing, 1::2::3
IPV6_LOOPBACK == <<58, 58, 49>>
GoodAddrValues ==
    {<<49, 57, 50, 46, 49, 54, 56, 46, 49, 55, 56, 46, 55, 53>>, <<49, 57, 50, 46, 49, 54, 56, 46, 49, 48, 46, 49, 48>>, IPV6_LOOPBACK,
     <<102, 101, 56, 48, 58, 58, 49>>,
     <<58, 58, 102, 102, 102, 102, 58, 49, 57, 50, 46, 49, 54, 56, 46, 49, 48, 46, 49, 48>>}
AddrValues ==
    GoodAddrValues
    \cup {<<108, 111, 99, 97, 108, 104, 111, 115, 116>>, <<49, 57, 50, 46, 49, 54, 56, 46, 49, 55, 56>>, <<50, 53, 54, 46, 49, 46, 49, 46, 49>>, <<>>,
          <<49, 58, 58, 50, 58, 58, 51>>}

with_value(headers, name, value) ==
    [i \in 1..Len(headers) |->
        IF headers[i].name = HeaderNames[name] THEN Header(HeaderNames[name], value)
        ELSE headers[i]]

\* The ten headers; all but one of them; one of them in lower case; PORT
\* or IPAddr with another value; the byte 0 as the device name.
KnownHeaderLists ==
    {TestHeaders}
    \cup {SelectSeq(TestHeaders, LAMBDA h : h.name # TestHeaders[i].name) : i \in 1..10}
    \cup {[j \in 1..10 |-> IF j = i THEN Header(to_ascii_lowercase(TestHeaders[i].name), TestHeaders[i].value)
                           ELSE TestHeaders[j]] : i \in 1..10}
    \cup {with_value(TestHeaders, "PORT", v) : v \in PortValues}
    \cup {with_value(TestHeaders, "IPAddr", v) : v \in AddrValues}
    \cup {with_value(TestHeaders, "DeviceName", <<0>>)}

\* Up to MaxUnknownHeaders unknown headers put in front of the others,
\* after the third of them or behind them.
MaxUnknownHeaders == 7
with_unknown(headers, k, at) ==
    SubSeq(headers, 1, at) \o [i \in 1..k |-> UnknownHeader]
    \o SubSeq(headers, at + 1, Len(headers))

HeaderLists ==
    {with_unknown(headers, k, at) :
        headers \in KnownHeaderLists, k \in 0..MaxUnknownHeaders, at \in {0, 3, 9}}
    \cup {with_unknown(headers, k, Len(headers)) :
        headers \in KnownHeaderLists, k \in 0..MaxUnknownHeaders}

\* The start line of the devices, the same without its space, that one
\* ended by a bare LF and that one after an empty line.
NotifyStartLines ==
    {BROKEN_NOTIFY_PREFIX, FIXED_NOTIFY_PREFIX, <<78, 79, 84, 73, 70, 89, 32, 42, 32, 72, 84, 84, 80, 47, 49, 46, 49, 10>>,
     <<13, 10, 78, 79, 84, 73, 70, 89, 32, 42, 32, 72, 84, 84, 80, 47, 49, 46, 49, 13, 10>>}

\* These; M-SEARCH; the path /; two spaces; the method in lower case.
StartLines ==
    NotifyStartLines
    \cup {<<77, 45, 83, 69, 65, 82, 67, 72, 32, 42, 32, 72, 84, 84, 80, 47, 49, 46, 49, 13, 10>>, <<78, 79, 84, 73, 70, 89, 32, 47, 32, 72, 84, 84, 80, 47, 49, 46, 49, 13, 10>>,
          <<78, 79, 84, 73, 70, 89, 32, 42, 32, 72, 84, 84, 80, 47, 49, 46, 49, 32, 32, 13, 10>>, <<110, 111, 116, 105, 102, 121, 32, 42, 32, 72, 84, 84, 80, 47, 49, 46, 49, 13, 10>>}

\* A datagram ends with the empty line, after its last header line, or
\* inside the last header's line, as parse_test's DATA does.
Datagrams ==
    [start_line : StartLines, headers : HeaderLists,
     ending : {"blank_line", "eof", "open_value"}]

\* The header lines of a datagram: name, colon, space, value and CRLF; the
\* last one without CRLF when the datagram ends inside its value.
RECURSIVE header_lines(_, _)
header_lines(headers, ending) ==
    IF Len(headers) = 0 THEN <<>>
    ELSE headers[1].name \o <<58, 32>> \o headers[1].value
         \o (IF Len(headers) = 1 /\ ending = "open_value" THEN <<>> ELSE <<13, 10>>)
         \o header_lines(Tail(headers), ending)

\* The bytes of a datagram: its start line, its header lines, and the
\* empty line when it ends with one.
Datagram_data(d) ==
    d.start_line \o header_lines(d.headers, d.ending)
    \o (IF d.ending = "blank_line" THEN <<13, 10>> ELSE <<>>)

DiscoveryInit ==
    /\ devices = EmptyTable
    /\ event_listeners = <<>>
    /\ receivers = {}
    /\ inbox = [c \in Channels |-> <<>>]
    /\ last = Idle
    /\ announced = [id \in DeviceIds |-> 0]
    /\ changes = 0
    /\ BusParked /\ WorkersParked /\ FakeParked
    /\ \E input \in Datagrams :
         codec = [stage |-> "datagram", input |-> input, reply |-> Err]

ParseDatagram ==
    /\ codec.stage = "datagram"
    /\ codec' = [codec EXCEPT !.stage = "reply", !.reply = DiscoveryReply_parse(Datagram_data(codec.input))]
    /\ UNCHANGED <<managerVars, busVars, workerVars, fakeVars>>

DiscoveryNext == ParseDatagram

DiscoverySpec == DiscoveryInit /\ [][DiscoveryNext]_vars

(***************************************************************************)
(* Packet::parse on the bytes of a datagram, as protocol.rs's              *)
(* PacketReceiver hands them over: any bytes, not only encoded packets.    *)
(***************************************************************************)
\* A payload of 256 bytes, the shortest whose length needs the high byte.
B_LONG == [i \in 1..U8_RANGE |-> i % U8_RANGE]

\* Frames of ten bytes or more: the magic and other bytes in front, the
\* status bytes of Packet::data, those of parse_test's PACKET and others,
\* a declared length that fits the payload or not.
FullFrames ==
    {magic \o <<command_type>> \o command \o status \o declared \o payload :
        magic \in {<<170, 170>>, <<0, 0>>, <<255, 1>>},
        command_type \in {0, COMMAND_TYPE_SET, 255},
        command \in {<<0, 14>>, <<1, 1>>, <<255, 255>>},
        status \in {<<0, 18, 52>>, <<1, 0, 0>>, <<255, 255, 255>>},
        declared \in {<<0, 0>>, <<0, 1>>, <<0, 2>>, <<1, 0>>},
        payload \in {<<>>, <<48>>, <<0, 255>>, <<1, 2, 3>>, B_LONG}}

\* Datagrams shorter than the header.
ShortFrames ==
    {<<>>, <<170>>, <<170, 170, 2, 0, 14>>, <<170, 170, 2, 0, 14, 1, 0, 0, 0>>,
     <<170, 170, 2, 0, 14, 0, 18, 52, 1>>}

CodecFrames == FullFrames \cup ShortFrames

FrameInit ==
    /\ devices = EmptyTable
    /\ event_listeners = <<>>
    /\ receivers = {}
    /\ inbox = [c \in Channels |-> <<>>]
    /\ last = Idle
    /\ announced = [id \in DeviceIds |-> 0]
    /\ changes = 0
    /\ BusParked /\ WorkersParked /\ FakeParked
    /\ \E frame \in CodecFrames :
         codec = [stage |-> "frame", packet |-> NoPacket, frame |-> frame, parsed |-> Err]

FrameNext == Parse

FrameSpec == FrameInit /\ [][FrameNext]_vars

(***************************************************************************)
(* The fake sender on its own: packets handed to                           *)
(* FakePacketSender::send_packet one after the other, each by a thread of  *)
(* its own (a send that panics ends its thread, not the sender), its       *)
(* replies left on their ports.  `fake` holds                              *)
(*   playing  FakePacketSender.playing: the bit, and whether its mutex is  *)
(*            poisoned                                                     *)
(*   queue    per port, the replies sent and not yet received              *)
(*   sent     history: the packets given to the sender                     *)
(***************************************************************************)
MaxSends == 3

\* "play", not a verb's token
B_LOWER_PLAY == <<112, 108, 97, 121>>

\* The set of each of the eight verbs, a set of another text, a set without
\* payload, the fetch of the play status.
SenderPackets ==
    {Command_set(PlayControl_SET_COMMAND_ID, PlayControl_marshal_data(PlayControlCommands[i])) :
        i \in DOMAIN PlayControlCommands}
    \cup {Command_set(PlayControl_SET_COMMAND_ID, B_LOWER_PLAY),
          Packet(COMMAND_TYPE_SET, PlayControl_SET_COMMAND_ID, None),
          Command_fetch(PlayControl_GET_COMMAND_ID)}

SenderStart ==
    [playing |-> FakeNetwork_packet_sender, queue |-> [port \in FakePorts |-> <<>>],
     sent |-> <<>>]

SenderInit ==
    /\ devices = EmptyTable
    /\ event_listeners = <<>>
    /\ receivers = {}
    /\ inbox = [c \in Channels |-> <<>>]
    /\ last = Idle
    /\ announced = [id \in DeviceIds |-> 0]
    /\ changes = 0
    /\ BusParked /\ WorkersParked /\ CodecParked
    /\ fake = SenderStart

\* One send_packet(packet, to): the mutex of `playing` and its bit after
\* it, its replies on their ports.
SenderSend(packet) ==
    /\ Len(fake.sent) < MaxSends
    /\ \E r \in {FakePacketSender_send_packet(fake.playing, packet,
                                               SocketAddr(FAKE_DEVICE_ADDR, CMD_SEND_PORT))} :
         fake' = [fake EXCEPT !.playing = r.playing,
                              !.queue = fake_enqueue(fake.queue, r.replies),
                              !.sent = Append(fake.sent, packet)]
    /\ UNCHANGED <<managerVars, busVars, workerVars, codecVars>>

SenderNext == \E packet \in SenderPackets : SenderSend(packet)

SenderSpec == SenderInit /\ [][SenderNext]_vars

(***************************************************************************)
(* commands.rs: format_reply and format_notification, which the two packet *)
(* handlers call to print the packet they received.  A formatted packet is *)
(* reduced to the kind that formatted it ("debug" for the `{:?}` dump) and *)
(* to whether the assert_eq! of the kind's formatter failed.               *)
(***************************************************************************)
PlayInfo_NOTIFY_ID == 278
PowerMode_NOTIFY_ID == 14
FirmwareUpdate_NOTIFY_ID == 65
DeviceName_NOTIFY_ID == 0
Capabilities_NOTIFY_ID == 0
PreChannel_NOTIFY_ID == 0
ChargingState_NOTIFY_ID == 1284
Power_GET_COMMAND_ID == 15

\* The kinds, by their NAME.
CommandNames ==
    {"Power", "Name", "Volume", "Play control", "Play info", "Capabilities",
     "Power mode", "Charging state", "Battery level", "FM Update", "PreChannel"}

\* Command::GET_REPLY_COMMAND_ID of a kind: GET_COMMAND_ID unless the kind
\* sets it.
GET_REPLY_COMMAND_ID(kind) ==
    CASE kind = "Power" -> Power_GET_COMMAND_ID
      [] kind = "Name" -> DeviceName_GET_REPLY_COMMAND_ID
      [] kind = "Volume" -> Volume_GET_REPLY_COMMAND_ID
      [] kind = "Play control" -> PlayControl_GET_REPLY_COMMAND_ID
      [] kind = "Play info" -> PlayInfo_GET_REPLY_COMMAND_ID
      [] kind = "Capabilities" -> Capabilities_GET_COMMAND_ID
      [] kind = "Power mode" -> PowerMode_GET_COMMAND_ID
      [] kind = "Charging state" -> ChargingState_GET_REPLY_COMMAND_ID
      [] kind = "Battery level" -> BatteryLevel_GET_REPLY_COMMAND_ID
      [] kind = "FM Update" -> FirmwareUpdate_GET_COMMAND_ID
      [] kind = "PreChannel" -> PreChannel_GET_COMMAND_ID

\* Command::NOTIFY_ID of a kind.
NOTIFY_ID(kind) ==
    CASE kind = "Power" -> Power_NOTIFY_ID
      [] kind = "Name" -> DeviceName_NOTIFY_ID
      [] kind = "Volume" -> Volume_NOTIFY_ID
      [] kind = "Play control" -> PlayControl_NOTIFY_ID
      [] kind = "Play info" -> PlayInfo_NOTIFY_ID
      [] kind = "Capabilities" -> Capabilities_NOTIFY_ID
      [] kind = "Power mode" -> PowerMode_NOTIFY_ID
      [] kind = "Charging state" -> ChargingState_NOTIFY_ID
      [] kind = "Battery level" -> BatteryLevel_NOTIFY_ID
      [] kind = "FM Update" -> FirmwareUpdate_NOTIFY_ID
      [] kind = "PreChannel" -> PreChannel_NOTIFY_ID

\* Command::format_reply and Command::format_notification of a kind: the
\* assert_eq!, then the kind's format.
Command_format_reply(kind, p) ==
    [panic |-> GET_REPLY_COMMAND_ID(kind) # p.command, formatted_by |-> kind]
Command_format_notification(kind, p) ==
    [panic |-> NOTIFY_ID(kind) # p.command, formatted_by |-> kind]

\* format!("{:?}", p)
debug_dump(p) == [panic |-> FALSE, formatted_by |-> "debug"]

\* Faulty variant: the battery level is routed by its fetch id.
format_reply_battery_by_fetch_id(p) ==
    IF p.command = BatteryLevel_GET_COMMAND_ID THEN Command_format_reply("Battery level", p)
    ELSE IF p.command = Capabilities_GET_COMMAND_ID THEN Command_format_reply("Capabilities", p)
    ELSE IF p.command = DeviceName_GET_COMMAND_ID THEN Command_format_reply("Name", p)
    ELSE IF p.command = FirmwareUpdate_GET_COMMAND_ID THEN Command_format_reply("FM Update", p)
    ELSE IF p.command = PlayControl_GET_COMMAND_ID THEN Command_format_reply("Play control", p)
    ELSE IF p.command = PlayInfo_GET_COMMAND_ID THEN Command_format_reply("Play info", p)
    ELSE IF p.command = PreChannel_GET_COMMAND_ID THEN Command_format_reply("PreChannel", p)
    ELSE IF p.command = Volume_GET_COMMAND_ID THEN Command_format_reply("Volume", p)
    ELSE debug_dump(p)

\* format_reply: the arms of its match, in their order.
format_reply(p) ==
    IF p.command = BatteryLevel_GET_REPLY_COMMAND_ID
    THEN Command_format_reply("Battery level", p)
    ELSE IF p.command = Capabilities_GET_COMMAND_ID THEN Command_format_reply("Capabilities", p)
    ELSE IF p.command = DeviceName_GET_COMMAND_ID THEN Command_format_reply("Name", p)
    ELSE IF p.command = FirmwareUpdate_GET_COMMAND_ID THEN Command_format_reply("FM Update", p)
    ELSE IF p.command = PlayControl_GET_COMMAND_ID THEN Command_format_reply("Play control", p)
    ELSE IF p.command = PlayInfo_GET_COMMAND_ID THEN Command_format_reply("Play info", p)
    ELSE IF p.command = PreChannel_GET_COMMAND_ID THEN Command_format_reply("PreChannel", p)
    ELSE IF p.command = Volume_GET_COMMAND_ID THEN Command_format_reply("Volume", p)
    ELSE debug_dump(p)

\* format_notification: the arms of its match, in their order.
format_notification(p) ==
    IF p.command = BatteryLevel_NOTIFY_ID
    THEN Command_format_notification("Battery level", p)
    ELSE IF p.command = FirmwareUpdate_NOTIFY_ID
    THEN Command_format_notification("FM Update", p)
    ELSE IF p.command = PlayControl_NOTIFY_ID
    THEN Command_format_notification("Play control", p)
    ELSE IF p.command = PlayInfo_NOTIFY_ID THEN Command_format_notification("Play info", p)
    ELSE IF p.command = Power_NOTIFY_ID THEN Command_format_notification("Power", p)
    ELSE IF p.command = PowerMode_NOTIFY_ID THEN Command_format_notification("Power mode", p)
    ELSE IF p.command = Volume_NOTIFY_ID THEN Command_format_notification("Volume", p)
    ELSE debug_dump(p)

\* The packets to print: every command id up to 300, the ids around the
\* charging state's and the largest id, of both types, with and without a
\* payload.
FormatCommands == 0..300 \cup {1283, 1284, 1285, 65535}
FormatPackets ==
    {Packet(command_type, command, command_data) :
        command_type \in {COMMAND_TYPE_FETCH, COMMAND_TYPE_SET},
        command \in FormatCommands,
        command_data \in {None, Some(B_3)}}

FormatInit ==
    /\ devices = EmptyTable
    /\ event_listeners = <<>>
    /\ receivers = {}
    /\ inbox = [c \in Channels |-> <<>>]
    /\ last = Idle
    /\ announced = [id \in DeviceIds |-> 0]
    /\ changes = 0
    /\ BusParked /\ WorkersParked /\ FakeParked
    /\ \E packet \in FormatPackets :
         codec = [stage |-> "received", packet |-> packet, port |-> 0,
                  text |-> debug_dump(packet)]

\* handle_command_response prints format_reply(packet).
FormatReply ==
    /\ codec.stage = "received"
    /\ codec' = [codec EXCEPT !.stage = "printed", !.port = CMD_RESP_PORT,
                              !.text = format_reply(codec.packet)]
    /\ UNCHANGED <<managerVars, busVars, workerVars, fakeVars>>

\* handle_notification prints format_notification(packet).
FormatNotification ==
    /\ codec.stage = "received"
    /\ codec' = [codec EXCEPT !.stage = "printed", !.port = NOTIF_RECV_PORT,
                              !.text = format_notification(codec.packet)]
    /\ UNCHANGED <<managerVars, busVars, workerVars, fakeVars>>

FormatNext == FormatReply \/ FormatNotification

FormatSpec == FormatInit /\ [][FormatNext]_vars

(***************************************************************************)
(* The manager's mutex, lock by lock.  The manager on the fake back-ends   *)
(* with its threads taken apart: each thread blocks where its code blocks  *)
(* (in poll(), in receive_packet(), in the subscriber's channel), asks for *)
(* the mutex, and does under it what its handler does; an API call makes   *)
(* one step per packet it sends.  `worker` holds, per thread,              *)
(*   pc    "discover", "receive" (blocked in poll or receive_packet),      *)
(*         "start", "events" (the subscriber before listen() and in its    *)
(*         loop), "idle" (the caller between calls), "lock" (in            *)
(*         lock().unwrap()), "locked" (holding the guard), "panicked"      *)
(*   op    the handler or API function the thread is in                    *)
(*   cur   the packet a listener thread received, with its sender          *)
(*   todo  the packets the API call has still to send                      *)
(*   call  the number of the API call, volume the argument of set_volume   *)
(* and `fake` the fake back-ends (fake::device_manager_config):            *)
(*   playing    FakePacketSender.playing: the bit, and whether its mutex   *)
(*              is poisoned                                                *)
(*   queue      per port, the replies sent and not yet received            *)
(*   discovery  "idle", "armed" once discover() started its timer thread,  *)
(*              "sent" once that thread sent the reply, "polled" once      *)
(*              poll() returned it                                         *)
(*   poisoned   a thread panicked holding the manager's mutex              *)
(*   early      listen() pushed the subscriber's sender before the         *)
(*              discovery reply was sent                                   *)
(*   app_seen   the events of its channel the subscriber has taken         *)
(*   api_calls  the calls of the caller so far, calls those of caller and  *)
(*              subscriber                                                 *)
(*   owner   the thread holding the manager's mutex, or "none"             *)
(*   stream  history: the packets given to sock_send, in order             *)
(*   replied history: the replies the fake sender put on its channels      *)
(*   handled history: what the workers handled (a packet, for a listener   *)
(*           thread), each with the events its handler published           *)
(***************************************************************************)
MaxApiCalls == 1

LockThreads == Workers \cup {"app", "caller"}

NoReply == FakeReply("", 0, NoPacket)

LockThread(pc) ==
    [pc |-> pc, op |-> "", cur |-> NoReply, todo |-> <<>>, call |-> 0, volume |-> 0]

LockStart ==
    [playing |-> FakeNetwork_packet_sender, queue |-> [port \in FakePorts |-> <<>>],
     discovery |-> "idle", poisoned |-> FALSE, early |-> FALSE, owner |-> "none",
     app_seen |-> 0, api_calls |-> 0, calls |-> 0,
     stream |-> <<>>, replied |-> <<>>, handled |-> <<>>]

LockInit ==
    /\ devices = EmptyTable
    /\ event_listeners = <<>>
    /\ receivers = {}
    /\ inbox = [c \in Channels |-> <<>>]
    /\ last = Idle
    /\ announced = [id \in DeviceIds |-> 0]
    /\ changes = 0
    /\ published = <<>> /\ listen_at = <<>>
    /\ CodecParked
    /\ worker = [t \in LockThreads |->
                   LockThread(CASE t = "discovery" -> "discover"
                                [] t = "app" -> "start"
                                [] t = "caller" -> "idle"
                                [] OTHER -> "receive")]
    /\ fake = LockStart

\* Where a thread is when it holds no guard and is in no call.
home(t) ==
    CASE t = "app" -> "events"
      [] t = "caller" -> "idle"
      [] OTHER -> "receive"

\* The port a listener thread receives on.
port_of(t) == IF t = "notification" THEN NOTIF_RECV_PORT ELSE CMD_RESP_PORT

\* discovery_thread: discover() starts the thread that sleeps one second,
\* then the loop calls poll().
LockDiscover ==
    /\ worker["discovery"].pc = "discover"
    /\ worker' = [worker EXCEPT !["discovery"].pc = "receive"]
    /\ fake' = [fake EXCEPT !.discovery = "armed"]
    /\ UNCHANGED <<managerVars, busVars, codecVars>>

\* The thread started by discover() sends the reply.
LockTimerFires ==
    /\ fake.discovery = "armed"
    /\ fake' = [fake EXCEPT !.discovery = "sent"]
    /\ UNCHANGED <<managerVars, busVars, workerVars, codecVars>>

\* poll() or receive_packet() returns: the thread held no guard of the
\* manager while it was blocked, and asks for one now.
LockReceive(t) ==
    /\ t \in Workers
    /\ worker[t].pc = "receive"
    /\ IF t = "discovery"
       THEN /\ fake.discovery = "sent"
            /\ fake' = [fake EXCEPT !.discovery = "polled"]
            /\ worker' = [worker EXCEPT ![t].pc = "lock", ![t].op = "register_device"]
       ELSE /\ fake.queue[port_of(t)] # <<>>
            /\ fake' = [fake EXCEPT !.queue[port_of(t)] = Tail(@)]
            /\ worker' = [worker EXCEPT
                            ![t].pc = "lock",
                            ![t].op = IF t = "notification" THEN "handle_notification"
                                      ELSE "handle_command_response",
                            ![t].cur = fake.queue[port_of(t)][1]]
    /\ UNCHANGED <<managerVars, busVars, codecVars>>

\* data.lock().unwrap() once the mutex is free: the guard, or a panic when
\* a thread panicked holding it.
lock_unwrap(t, owner, poisoned) ==
    IF poisoned THEN [owner |-> owner, pc |-> "panicked"]
    ELSE [owner |-> t, pc |-> "locked"]

\* The thread t, or no thread, panics and unwinds: what the thread owns is
\* dropped, for the subscriber the Receiver that listen() returned to it.
Unwind(t, panicked) ==
    /\ receivers' = IF panicked /\ t = "app" THEN receivers \ {1} ELSE receivers
    /\ inbox' = IF panicked /\ t = "app" /\ 1 \in receivers
                THEN [inbox EXCEPT ![1] = <<>>] ELSE inbox

LockAcquire(t) ==
    /\ worker[t].pc = "lock"
    /\ fake.owner = "none"
    /\ \E r \in {lock_unwrap(t, fake.owner, fake.poisoned)} :
         /\ fake' = [fake EXCEPT !.owner = r.owner]
         /\ worker' = [worker EXCEPT ![t].pc = r.pc]
         /\ Unwind(t, r.pc = "panicked")
    /\ UNCHANGED <<devices, event_listeners, last, announced, changes, busVars, codecVars>>

\* The sends of a handler through the fake sender, and the guard dropped
\* at the handler's end or by its panic, which poisons the mutex.
LockSent(t, sent, call) ==
    CHOOSE after \in
      {[fake EXCEPT !.playing = r.playing, !.queue = r.queue,
                    !.poisoned = @ \/ r.panic, !.owner = "none",
                    !.stream = @ \o [i \in 1..Len(sent) |->
                                       [by |-> t, op |-> worker[t].op, call |-> call,
                                        volume |-> worker[t].volume,
                                        packet |-> sent[i].packet, to |-> sent[i].to]],
                    !.replied = @ \o fake_replies_upto(fake.playing, sent,
                                                       IF r.panic THEN 0 ELSE Len(sent))] :
         r \in {fake_sends(fake.playing, fake.queue, sent)}} : TRUE

\* A worker's handler, under the guard it took: register_device,
\* handle_notification or handle_command_response.
LockHandle(t) ==
    /\ t \in Workers
    /\ worker[t].pc = "locked"
    /\ fake.owner = t
    /\ \E found \in find_by_addr(devices, worker[t].cur.from.ip) :
         \E out \in {CASE t = "discovery" ->
                            register_device(devices, event_listeners, receivers, inbox,
                                            FakeDiscoveryReply)
                       [] t = "notification" ->
                            handle_notification(devices, event_listeners, receivers, inbox,
                                                worker[t].cur.from.ip, worker[t].cur.packet,
                                                TRUE, found)
                       [] OTHER ->
                            handle_command_response(devices, event_listeners, receivers,
                                                    inbox, worker[t].cur.from.ip,
                                                    worker[t].cur.packet, found)} :
           \E after \in {LockSent(t, out.sent, 0)} :
             /\ devices' = out.devices
             /\ event_listeners' = out.event_listeners
             /\ inbox' = out.inbox
             /\ published' = published \o out.events
             /\ fake' = [after EXCEPT
                           !.handled = Append(@, [by |-> t, packet |-> worker[t].cur.packet,
                                                  events |-> out.events])]
             /\ worker' = [worker EXCEPT
                             ![t] = LockThread(IF after.poisoned THEN "panicked"
                                               ELSE "receive")]
    /\ UNCHANGED <<receivers, last, announced, changes, listen_at, codecVars>>

\* The subscriber calls listen(), as bin/cli.rs does first.
AppListen ==
    /\ worker["app"].pc = "start"
    /\ worker' = [worker EXCEPT !["app"].pc = "lock", !["app"].op = "listen"]
    /\ UNCHANGED <<managerVars, busVars, codecVars, fakeVars>>

\* listen() under its guard: the sender is pushed, the guard is dropped.
LockListen(t) ==
    /\ worker[t].pc = "locked"
    /\ worker[t].op = "listen"
    /\ fake.owner = t
    /\ event_listeners' = Append(event_listeners, 1)
    /\ receivers' = receivers \cup {1}
    /\ fake' = [fake EXCEPT !.owner = "none",
                            !.early = fake.discovery \in {"idle", "armed"}]
    /\ worker' = [worker EXCEPT ![t] = LockThread(home(t))]
    /\ UNCHANGED <<devices, inbox, last, announced, changes, busVars, codecVars>>

\* The subscriber takes the next event of its channel; on DeviceDiscovered
\* it calls fetch_info.
AppReceive ==
    /\ worker["app"].pc = "events"
    /\ fake.app_seen < Len(inbox[1])
    /\ LET event == inbox[1][fake.app_seen + 1]
       IN  IF event.kind = "DeviceDiscovered"
           THEN /\ worker' = [worker EXCEPT
                                !["app"] = [pc |-> "lock", op |-> "fetch_info",
                                            cur |-> NoReply,
                                            todo |-> [k \in 1..Len(FetchInfoCommands) |->
                                                        Command_fetch(FetchInfoCommands[k])],
                                            call |-> fake.calls + 1, volume |-> 0]]
                /\ fake' = [fake EXCEPT !.app_seen = @ + 1, !.calls = @ + 1]
           ELSE /\ fake' = [fake EXCEPT !.app_seen = @ + 1]
                /\ UNCHANGED worker
    /\ UNCHANGED <<managerVars, busVars, codecVars>>

\* What a caller hands to set_volume and send_packet: a volume in range
\* and one above it; PLAY, TOGGL and a PlayControl set without payload.
FakeVolumes == {9, 101}
FakeApiPackets ==
    {Command_set(PlayControl_SET_COMMAND_ID, PlayControl_marshal_data("Play")),
     Command_set(PlayControl_SET_COMMAND_ID, PlayControl_marshal_data("Toggle")),
     Packet(COMMAND_TYPE_SET, PlayControl_SET_COMMAND_ID, None)}

\* The calls of the caller: fetch_info, set_volume and send_packet, each
\* with the packets it hands to DeviceManagerData::send_packet.
LockCalls ==
    {[op |-> "fetch_info", volume |-> 0,
      todo |-> [k \in 1..Len(FetchInfoCommands) |-> Command_fetch(FetchInfoCommands[k])]]}
    \cup {[op |-> "set_volume", volume |-> v,
           todo |-> <<Command_set(Volume_SET_COMMAND_ID,
                                  Volume_marshal_data(clamp(v, 0, VOLUME_MAX)).bytes)>>] :
             v \in FakeVolumes}
    \cup {[op |-> "send_packet", volume |-> 0, todo |-> <<packet>>] :
             packet \in FakeApiPackets}

\* A thread of the application calls the API for the fake device.
CallerCalls(c) ==
    /\ worker["caller"].pc = "idle"
    /\ fake.api_calls < MaxApiCalls
    /\ worker' = [worker EXCEPT
                    !["caller"] = [pc |-> "lock", op |-> c.op, cur |-> NoReply,
                                   todo |-> c.todo, call |-> fake.calls + 1,
                                   volume |-> c.volume]]
    /\ fake' = [fake EXCEPT !.api_calls = @ + 1, !.calls = @ + 1]
    /\ UNCHANGED <<managerVars, busVars, codecVars>>

\* Faulty variant: the guard is dropped after each send and taken again
\* for the next.
after_send_unlocks(t, rest) ==
    [owner |-> "none", pc |-> IF rest = <<>> THEN home(t) ELSE "lock"]

\* The guard of an API call lives until the call returns: after a send it
\* is kept while packets remain.
after_send(t, rest) ==
    IF rest = <<>> THEN [owner |-> "none", pc |-> home(t)]
    ELSE [owner |-> t, pc |-> "locked"]

\* One data.send_packet(..) of an API call under its guard: an unknown
\* device ends the call with an error, a panic of the sender poisons the
\* mutex.
LockSend(t) ==
    /\ worker[t].pc = "locked"
    /\ worker[t].todo # <<>>
    /\ fake.owner = t
    /\ \E r \in {send_packet(devices, FAKE_DEVICE_ID, worker[t].todo[1], TRUE)} :
         IF r.result # "ok"
         THEN /\ fake' = [fake EXCEPT !.owner = "none"]
              /\ worker' = [worker EXCEPT ![t] = LockThread(home(t))]
              /\ Unwind(t, FALSE)
         ELSE \E after \in {LockSent(t, r.sent, worker[t].call)},
                 next \in {after_send(t, Tail(worker[t].todo))} :
                /\ Unwind(t, after.poisoned)
                /\ IF after.poisoned
                   THEN /\ fake' = after
                        /\ worker' = [worker EXCEPT ![t] = LockThread("panicked")]
                   ELSE /\ fake' = [after EXCEPT !.owner = next.owner]
                        /\ worker' = [worker EXCEPT
                                        ![t] = IF next.pc = home(t) THEN LockThread(home(t))
                                               ELSE [@ EXCEPT !.pc = next.pc,
                                                              !.todo = Tail(@)]]
    /\ UNCHANGED <<devices, event_listeners, last, announced, changes, busVars, codecVars>>

\* What a thread does once it is in a call or has something to receive.
LockStep(t) ==
    \/ LockReceive(t)
    \/ LockAcquire(t)
    \/ LockHandle(t)
    \/ LockListen(t)
    \/ LockSend(t)

LockNext ==
    \/ LockDiscover
    \/ LockTimerFires
    \/ AppListen
    \/ AppReceive
    \/ \E c \in LockCalls : CallerCalls(c)
    \/ \E t \in LockThreads : LockStep(t)

\* Every thread is scheduled; nothing is assumed of when, or whether, the
\* caller calls.
LockFair ==
    /\ WF_vars(LockDiscover) /\ WF_vars(LockTimerFires)
    /\ WF_vars(AppListen) /\ WF_vars(AppReceive)
    /\ \A t \in LockThreads : WF_vars(LockStep(t))

LockSpec == LockInit /\ [][LockNext]_vars /\ LockFair

(***************************************************************************)
(* The same threads with a caller that sets the volume of the fake device. *)
(***************************************************************************)
MaxVolumeCalls == 1

VolumeInit == LockInit

\* DeviceManager::set_volume(FAKE_DEVICE_ID, v), called by a thread of the
\* application.
CallerSetsVolume(v) ==
    /\ worker["caller"].pc = "idle"
    /\ fake.api_calls < MaxVolumeCalls
    /\ worker' = [worker EXCEPT
                    !["caller"] =
                       [pc |-> "lock", op |-> "set_volume", cur |-> NoReply,
                        todo |-> <<Command_set(Volume_SET_COMMAND_ID,
                                               Volume_marshal_data(
                                                   clamp(v, 0, VOLUME_MAX)).bytes)>>,
                        call |-> fake.calls + 1, volume |-> v]]
    /\ fake' = [fake EXCEPT !.api_calls = @ + 1, !.calls = @ + 1]
    /\ UNCHANGED <<managerVars, busVars, codecVars>>

VolumeNext ==
    \/ LockDiscover
    \/ LockTimerFires
    \/ AppListen
    \/ AppReceive
    \/ \E v \in FakeVolumes : CallerSetsVolume(v)
    \/ \E t \in LockThreads : LockStep(t)

\* A thread that can take a step is scheduled, whichever it is: a thread
\* that received something, waits for the free mutex or holds it.
VolumeFair == WF_vars(\E t \in LockThreads : LockStep(t))

VolumeSpec == VolumeInit /\ [][VolumeNext]_vars /\ VolumeFair

(***************************************************************************)
(* Properties.                                                             *)
(***************************************************************************)
ApiCalls == {"fetch_info", "set_volume", "send_packet"}
PacketHandlers == {"handle_notification", "handle_command_response"}

\* The devices of the table `table` whose address is `ip`.
DevicesAt(table, ip) == {id \in DOMAIN table : table[id].addr = ip}

\* C1: register_device inserts a device only when its id is not yet in the
\* table and publishes DeviceDiscovered exactly once per distinct id, on the
\* first reply carrying that id; a later reply with a known id changes
\* nothing in the table and publishes no event.
C1_RegisterOncePerId ==
    /\ \A id \in DeviceIds : announced[id] = IF id \in DOMAIN devices THEN 1 ELSE 0
    /\ last.op = "register_device" =>
         IF last.device_id \in DOMAIN last.before
         THEN devices = last.before /\ last.events = <<>>
         ELSE /\ DOMAIN devices = DOMAIN last.before \cup {last.device_id}
              /\ \A id \in DOMAIN last.before : devices[id] = last.before[id]
              /\ devices[last.device_id].id = last.device_id
              /\ devices[last.device_id].addr = last.ip
              /\ last.events = <<[kind |-> "DeviceDiscovered",
                                  device |-> devices[last.device_id]]>>

\* C1 witness: a reply with an id that is already in the table was handled.
C1_Witness ==
    /\ last.op = "register_device"
    /\ last.device_id \in DOMAIN last.before
    /\ announced[last.device_id] = 1

\* C2: the device table only grows: a device id in the table is never
\* removed and the id and addr of its record never change, whatever the
\* step, even on a discovery reply with the same id and another address.
C2_TableOnlyGrows ==
    [][\A id \in DOMAIN devices :
          /\ id \in DOMAIN devices'
          /\ devices'[id].id = devices[id].id
          /\ devices'[id].addr = devices[id].addr]_vars

\* C2 witness: a reply with a known id and another address was handled for
\* a device that a packet had updated before.
C2_Witness ==
    /\ last.op = "register_device"
    /\ last.device_id \in DOMAIN last.before
    /\ last.before[last.device_id].addr # last.ip
    /\ last.before[last.device_id].volume # None

\* C3: a device whose DeviceDiscovered a subscriber holds is in the table,
\* and an API call naming it does not fail with an unknown device.
C3_DiscoveredIsKnown ==
    \A c \in Channels : \A i \in 1..Len(inbox[c]) :
        inbox[c][i].kind = "DeviceDiscovered" =>
            /\ inbox[c][i].device.id \in DOMAIN devices
            /\ (last.op \in ApiCalls /\ last.device_id = inbox[c][i].device.id)
                 => last.result # "unknown_device"

\* C3 witness: a subscriber holds DeviceDiscovered(d) and fetch_info(d.id)
\* returned.
C3_Witness ==
    /\ last.op = "fetch_info"
    /\ \E c \in Channels : \E i \in 1..Len(inbox[c]) :
          /\ inbox[c][i].kind = "DeviceDiscovered"
          /\ inbox[c][i].device.id = last.device_id

\* C4: fetch_info on a known device whose sends all succeed makes exactly
\* seven sends, of type 1 and without payload, with the command ids 90, 64,
\* 51, 278, 1284, 256, 275 in that order, each to port 7777 of the device's
\* address, and changes neither the device table nor the subscriber list.
C4_FetchInfoSevenPackets ==
    (/\ last.op = "fetch_info"
     /\ last.device_id \in DOMAIN last.before
     /\ \A i \in 1..Len(last.sent) : last.sent[i].ok)
    => /\ Len(last.sent) = 7
       /\ \A i \in 1..7 :
            /\ last.sent[i].packet =
                 [command_type |-> 1,
                  command |-> <<90, 64, 51, 278, 1284, 256, 275>>[i],
                  command_data |-> <<>>]
            /\ last.sent[i].to = [ip |-> last.before[last.device_id].addr, port |-> 7777]
       /\ devices = last.before
       /\ event_listeners = last.listeners_before

\* C4 witness: a fetch_info on a known device returned Ok.
C4_Witness ==
    /\ last.op = "fetch_info"
    /\ last.device_id \in DOMAIN last.before
    /\ last.result = "ok"
    /\ Len(event_listeners) > 0

\* C5: fetch_info, set_volume and send_packet with an id that is not in the
\* table return an error, send nothing and leave the device table and the
\* subscriber list unchanged.
C5_UnknownDeviceIsError ==
    (last.op \in ApiCalls /\ last.device_id \notin DOMAIN last.before)
    => /\ last.result = "unknown_device"
       /\ last.sent = <<>>
       /\ last.events = <<>>
       /\ devices = last.before
       /\ event_listeners = last.listeners_before

\* C5 witness: a call named an id that is not in a table that holds another
\* device.
C5_Witness ==
    /\ last.op \in ApiCalls
    /\ last.device_id \notin DOMAIN last.before
    /\ DOMAIN last.before # {}

\* The ASCII decimal of a number up to 999.
Decimal(n) ==
    IF n < 10 THEN <<48 + n>>
    ELSE IF n < 100 THEN <<48 + (n \div 10), 48 + (n % 10)>>
    ELSE <<48 + (n \div 100), 48 + ((n \div 10) % 10), 48 + (n % 10)>>

\* C6: set_volume(id, v) on a known device makes exactly one send, of the
\* packet {type 2, command 64, payload the ASCII decimal of min(v, 100)}, to
\* port 7777 of the device's address, and does not abort.
C6_SetVolumeClamps ==
    (last.op = "set_volume" /\ last.device_id \in DOMAIN last.before)
    => /\ last.result # "panic"
       /\ Len(last.sent) = 1
       /\ last.sent[1].packet =
            [command_type |-> 2, command |-> 64,
             command_data |-> <<Decimal(IF last.volume < 100 THEN last.volume ELSE 100)>>]
       /\ last.sent[1].to = [ip |-> last.before[last.device_id].addr, port |-> 7777]

\* C6 witness: set_volume with a volume above 100 on a known device.
C6_Witness ==
    /\ last.op = "set_volume"
    /\ last.device_id \in DOMAIN last.before
    /\ last.volume > 100
    /\ last.result = "ok"

\* The positions of an effect in the order of a handler's effects.
Positions(trace, effect) == {i \in 1..Len(trace) : trace[i] = effect}

\* C7: in handle_notification the ack is sent before any change to a
\* device record and before any publication: an update or a publication is
\* preceded by the send of the ack, which succeeded.
C7_AckBeforeUpdate ==
    last.op = "handle_notification" =>
        /\ \A i \in Positions(last.trace, "update") \cup Positions(last.trace, "publish") :
              \E j \in Positions(last.trace, "send") : j < i
        /\ (last.events # <<>> \/ devices # last.before) =>
              /\ Len(last.sent) >= 1
              /\ last.sent[1].ok
              /\ last.sent[1].packet.command = 2
              /\ last.trace[1] = "send"

\* C7 witness: a notification changed a device record and was published.
C7_Witness ==
    /\ last.op = "handle_notification"
    /\ devices # last.before
    /\ last.events # <<>>

\* C8: a packet received on port 3333 makes exactly one send, of the ack
\* {type of the notification, command 2, no payload}, to port 3334 of the
\* sender's address, whoever the sender and whatever the command and the
\* payload; a packet received on port 7778 makes no send.
C8_OneAckPerNotification ==
    /\ last.op = "handle_notification" =>
         /\ Len(last.sent) = 1
         /\ last.sent[1].packet =
              [command_type |-> last.packet.command_type, command |-> 2,
               command_data |-> <<>>]
         /\ last.sent[1].to = [ip |-> last.ip, port |-> 3334]
    /\ last.op = "handle_command_response" => last.sent = <<>>

\* C8 witness: a notification of type fetch from an address of no device in
\* a table that holds a device.
C8_Witness ==
    /\ last.op = "handle_notification"
    /\ last.packet.command_type = 1
    /\ DOMAIN last.before # {}
    /\ DevicesAt(last.before, last.ip) = {}
    /\ Len(last.sent) = 1

\* The field a command id maps to, and the decoder of its payload.
FieldOf(command) ==
    CASE command = 90 -> "name"
      [] command = 64 -> "volume"
      [] command = 51 -> "play_status"
      [] command = 278 -> "play_info"
      [] command = 1284 -> "charging_state"
      [] command \in {257, 258} -> "battery_level"
      [] command = 275 -> "pre_channels"

DecodeOf(command, data) ==
    CASE command = 90 -> DeviceName_unmarshal_data(data)
      [] command = 64 -> Volume_unmarshal_data(data)
      [] command = 51 -> PlayControl_unmarshal_data(data)
      [] command = 278 -> PlayInfo_unmarshal_data(data)
      [] command = 1284 -> ChargingState_unmarshal_data(data)
      [] command \in {257, 258} -> BatteryLevel_unmarshal_data(data)
      [] command = 275 -> PreChannel_unmarshal_data(data)

MappedCommands == {90, 64, 51, 278, 1284, 257, 258, 275}

\* The handler in `last` got a packet with a mapped command id and a
\* payload that decodes, from the address of a device in the table.
DecodablePacketFromKnownDevice ==
    /\ last.op \in PacketHandlers
    /\ DevicesAt(last.before, last.ip) # {}
    /\ last.packet.command \in MappedCommands
    /\ DecodeOf(last.packet.command, unwrap_or_empty(last.packet.command_data)).ok

\* Exactly the mapped field of one device at the sender's address was set
\* to the decoded value, and one DeviceUpdated carries the new record.
OneFieldSetAndPublished ==
    LET field == FieldOf(last.packet.command)
        value == DecodeOf(last.packet.command, unwrap_or_empty(last.packet.command_data)).val
    IN  \E id \in DevicesAt(last.before, last.ip) :
          /\ DOMAIN devices = DOMAIN last.before
          /\ \A other \in DOMAIN devices \ {id} : devices[other] = last.before[other]
          /\ devices[id][field] = value
          /\ \A f \in DOMAIN devices[id] \ {field} : devices[id][f] = last.before[id][f]
          /\ last.events = <<[kind |-> "DeviceUpdated", device |-> devices[id]]>>

\* C9 as stated: a packet from the address of a known device whose payload
\* decodes sets exactly the field mapped to its command id and publishes
\* one DeviceUpdated with the new record, on the notification port and on
\* the command-reply port alike.
C9_Original ==
    DecodablePacketFromKnownDevice => OneFieldSetAndPublished

\* C9 amended: the same, provided that, for a packet of the notification
\* port, the send of the ack succeeded; when it failed, no field is set and
\* nothing is published.
C9_UpdateSetsMappedField ==
    DecodablePacketFromKnownDevice =>
        IF last.op = "handle_notification" /\ ~last.sent[1].ok
        THEN devices = last.before /\ last.events = <<>>
        ELSE OneFieldSetAndPublished

\* C9 witness: a notification replaced the volume of a device by another
\* volume.
C9_Witness ==
    /\ last.op = "handle_notification"
    /\ last.packet.command = 64
    /\ \E id \in DOMAIN last.before :
          /\ last.before[id].volume # None
          /\ devices[id].volume # None
          /\ devices[id].volume # last.before[id].volume

\* C10: a packet whose command id is none of 90, 64, 51, 278, 1284, 257,
\* 258, 275 leaves the device table unchanged and publishes no event.
C10_OtherCommandsChangeNothing ==
    (last.op \in PacketHandlers /\ last.packet.command \notin MappedCommands)
    => devices = last.before /\ last.events = <<>>

\* C10 witness: a packet with the BatteryLevel fetch id 256 and a payload
\* that is a number came from the address of a known device.
C10_Witness ==
    /\ last.op \in PacketHandlers
    /\ last.packet.command = 256
    /\ last.packet.command_data = <<B_3>>
    /\ DevicesAt(last.before, last.ip) # {}
    /\ (last.op = "handle_notification" => last.sent[1].ok)

\* The handler in `last` ran handle_incoming_packet: it is the handler of
\* the command-reply port, or the one of the notification port after the
\* send of its ack succeeded.
RoutedPacket ==
    \/ last.op = "handle_command_response"
    \/ last.op = "handle_notification" /\ last.sent[1].ok

\* C11: a packet whose source address is the addr of no device in the
\* table is dropped silently: handle_incoming_packet returns success, the
\* device table is unchanged and no event is published, whatever the
\* command id and the payload.
C11_UnknownSenderDropped ==
    (last.op \in PacketHandlers /\ DevicesAt(last.before, last.ip) = {})
    => /\ devices = last.before
       /\ last.events = <<>>
       /\ event_listeners = last.listeners_before
       /\ RoutedPacket => last.result = "ok"

\* C11 witness: a packet with a mapped command id and a payload that
\* decodes came from an address of no device, the table holding a device.
C11_Witness ==
    /\ RoutedPacket
    /\ DOMAIN last.before # {}
    /\ DevicesAt(last.before, last.ip) = {}
    /\ last.packet.command = 64
    /\ last.packet.command_data = <<B_3>>
    /\ last.result = "ok"

\* The handler in `last` got a packet with a mapped command id and a
\* payload that does not decode, from the address of a device in the table.
UndecodablePacketFromKnownDevice ==
    /\ last.op \in PacketHandlers
    /\ DevicesAt(last.before, last.ip) # {}
    /\ last.packet.command \in MappedCommands
    /\ ~DecodeOf(last.packet.command, unwrap_or_empty(last.packet.command_data)).ok

\* C12: when a packet with a known command id carries a payload that fails
\* to decode, every device record is the same before and after, the field
\* keeps its previous value, no event is published and the handler returns
\* the decode error.
C12_DecodeFailureKeepsRecord ==
    UndecodablePacketFromKnownDevice
    => /\ devices = last.before
       /\ last.events = <<>>
       /\ RoutedPacket => last.result = "decode_error"

\* C12 witness: a volume packet whose payload is not a number reached a
\* device whose volume was present, and the volume is still present.
C12_Witness ==
    /\ RoutedPacket
    /\ last.packet.command = 64
    /\ last.result = "decode_error"
    /\ \E id \in DevicesAt(last.before, last.ip) :
          /\ last.before[id].volume # None
          /\ devices[id].volume = last.before[id].volume

\* C13 as stated: for every device in the table, volume when present is
\* within 0..100 and battery_level when present is within 0..100.
C13_VolumeAndBatteryInRange ==
    \A id \in DOMAIN devices :
        /\ devices[id].volume # None => devices[id].volume[1] \in 0..100
        /\ devices[id].battery_level # None => devices[id].battery_level[1] \in 0..100

\* C14: a subscriber that stays alive receives the manager's publications
\* from its listen() onward, in the order of publication, none reordered,
\* duplicated or skipped, whichever worker's handler published them.
C14_SubscriberSeesPublicationOrder ==
    \A c \in receivers :
        /\ listen_at[c] <= Len(published)
        /\ inbox[c] = SubSeq(published, listen_at[c] + 1, Len(published))

\* C14 witness: two publications of different events by different
\* handlers; one subscriber listened before both and holds both, another
\* listened between them and holds the second only.
C14_Witness ==
    /\ Len(published) = 2
    /\ published[1].kind # published[2].kind
    /\ \E c, d \in receivers :
          /\ listen_at[c] = 0 /\ inbox[c] = published
          /\ listen_at[d] = 1 /\ inbox[d] = <<published[2]>>

\* The subscribers of the list `listeners` whose receiver is alive, in the
\* order of the list.
LiveSubscribers(listeners) == SelectSeq(listeners, LAMBDA c : c \in receivers)

\* C15: when a publication returns the subscriber list holds exactly the
\* subscribers that were in it before and whose receiver is alive, in their
\* original relative order, wherever the dropped ones stood in the list.  A
\* receiver dropped later stays listed until the next publication.
C15_PublicationPrunesDropped ==
    [][(last' # last /\ last'.events # <<>>) =>
          /\ receivers' = receivers
          /\ event_listeners' = LiveSubscribers(last'.listeners_before)]_vars

\* C15 witness: of three subscribers the first two, adjacent, had dropped
\* their receivers when an event was published; the third is kept.
C15_Witness ==
    /\ last.events # <<>>
    /\ Len(last.listeners_before) = 3
    /\ last.listeners_before[1] \notin receivers
    /\ last.listeners_before[2] \notin receivers
    /\ last.listeners_before[3] \in receivers
    /\ event_listeners = <<last.listeners_before[3]>>

\* C15 witness of the other positions: all three subscribers had dropped
\* their receivers, or the last one only.
C15_WitnessAllDropped ==
    /\ last.events # <<>>
    /\ Len(last.listeners_before) = 3
    /\ \A i \in 1..3 : last.listeners_before[i] \notin receivers
    /\ event_listeners = <<>>

\* The worker function of thread w is running: thread_manager has called
\* it and it has not returned.
Running(w) == worker[w].pc \in {"setup", "loop"}

\* C16: whenever a worker function returns an error its supervisor calls
\* the same function again after the sleep, as many times as the function
\* fails: the calls are one more than the failures while the function runs;
\* a step of a worker outside its loop leaves the other two workers and the
\* manager's data untouched; and a worker whose function failed is called
\* again and, its setup succeeding at last, reaches its receive loop.
C16_SupervisorRestarts ==
    /\ [](\A w \in Workers :
            worker[w].invocations = worker[w].failures + (IF Running(w) THEN 1 ELSE 0))
    /\ [][\A w \in Workers :
            (worker[w].pc # "loop" /\ worker'[w] # worker[w])
            => /\ \A o \in Workers \ {w} : worker'[o] = worker[o]
               /\ devices' = devices
               /\ event_listeners' = event_listeners
               /\ published' = published]_vars
    /\ \A w \in Workers : (worker[w].pc = "failed") ~> (worker[w].pc = "setup")
    /\ \A w \in Workers : (worker[w].pc = "failed") ~> (worker[w].pc = "loop")

\* C16 witness: a worker function failed twice, was called a third time
\* and is in its loop, while another worker's handler has put a device's
\* volume in the table.
C16_Witness ==
    /\ \E w \in Workers :
          /\ worker[w].failures = 2
          /\ worker[w].invocations = 3
          /\ worker[w].pc = "loop"
          /\ \E o \in Workers \ {w} : worker[o].failures = 0 /\ worker[o].trace = <<"ok">>
    /\ \E id \in DOMAIN devices : devices[id].volume # None

\* The socket failures an iteration of a receive loop can meet: recv_from
\* fails, or the send of the ack fails.
SocketFailures == {"recv_error", "send_error"}

\* C17 as stated, for the failures at receive and at send: a worker that
\* met a socket failure in its loop is not in that loop any more, its
\* function having returned the error to the supervisor.
C17_Original ==
    \A w \in Workers :
        (\E i \in 1..Len(worker[w].trace) : worker[w].trace[i] \in SocketFailures)
        => worker[w].pc # "loop"

\* The iterations of worker w's loop that ended with an error.
FailedIterations(w) == {i \in 1..Len(worker[w].trace) : worker[w].trace[i] # "ok"}

\* C17 amended: a failure of the setup call (the bind of the receive
\* socket, the send of the discovery request) is returned to the
\* supervisor, which prints it once and sleeps before it calls the function
\* again; a failure at receive or at send inside the loop is printed by the
\* loop itself, is not returned and ends neither the loop nor the
\* invocation.
C17_OnlySetupFailuresRestart ==
    \A w \in Workers :
        /\ worker[w].supervisor_logs + (IF worker[w].pc = "failed" THEN 1 ELSE 0)
             = worker[w].failures
        /\ worker[w].pc \in {"failed", "sleeping"} =>
              worker[w].setup_calls = 1 /\ worker[w].trace = <<>>
        /\ worker[w].trace # <<>> => worker[w].pc = "loop"
        /\ worker[w].loop_logs = Cardinality(FailedIterations(w))

\* C17 witness: the notification worker's bind failed once and was
\* printed by the supervisor; called again, the worker met a receive failure
\* and a send failure in its loop, printed both and is still in the loop.
C17_Witness ==
    /\ worker["notification"].failures = 1
    /\ worker["notification"].supervisor_logs = 1
    /\ worker["notification"].invocations = 2
    /\ worker["notification"].trace = <<"recv_error", "send_error">>
    /\ worker["notification"].loop_logs = 2
    /\ worker["notification"].pc = "loop"

\* C18: an error of one packet (a frame that does not parse, a payload
\* that does not decode, a handler that returns an error) never ends a
\* listener's loop: the iteration leaves the worker in its loop, in the
\* same invocation, with no failure counted, and the next packet is
\* handled by that invocation.
C18_PacketErrorKeepsLoop ==
    [][\A w \in PacketWorkers :
          worker[w].pc = "loop"
          => /\ worker'[w].pc = "loop"
             /\ worker'[w].invocations = worker[w].invocations
             /\ worker'[w].failures = worker[w].failures
             /\ worker'[w].trace = worker[w].trace
                \/ \E outcome \in ReceiveErrors \cup {"ok", "decode_error", "send_error"} :
                      worker'[w].trace = Append(worker[w].trace, outcome)]_vars

\* C18 witness: in one invocation the notification worker's handler
\* returned an error, the send of the ack having failed, and the next packet
\* was received and handled.
C18_Witness ==
    /\ worker["notification"].invocations = 1
    /\ worker["notification"].trace = <<"send_error", "ok">>
    /\ worker["notification"].loop_logs = 1
    /\ worker["notification"].pc = "loop"

\* The events of the history that announce a device.
Discoveries == {i \in 1..Len(published) : published[i].kind = "DeviceDiscovered"}

\* C19: in the discovery loop a poll() that returns an error is skipped:
\* the loop goes on in the same invocation without another discover(), the
\* device table and the history of publications are as they were; a reply
\* polled afterwards is registered; discover() is called exactly once per
\* invocation, before the first poll().
C19_PollErrorSkipped ==
    /\ [](/\ worker["discovery"].pc = "setup" => worker["discovery"].setup_calls = 0
          /\ worker["discovery"].pc \in {"loop", "failed", "sleeping"}
               => worker["discovery"].setup_calls = 1
          /\ worker["discovery"].trace # <<>> => worker["discovery"].pc = "loop"
          /\ Cardinality(DOMAIN devices) = Cardinality(Discoveries)
          /\ (\E i \in 1..Len(worker["discovery"].trace) : worker["discovery"].trace[i] = "ok")
               => DOMAIN devices # {})
    /\ [][(\E outcome \in ReceiveErrors :
              worker'["discovery"].trace = Append(worker["discovery"].trace, outcome))
          => /\ worker'["discovery"].pc = "loop"
             /\ worker'["discovery"].invocations = worker["discovery"].invocations
             /\ worker'["discovery"].setup_calls = worker["discovery"].setup_calls
             /\ worker'["discovery"].failures = worker["discovery"].failures
             /\ devices' = devices
             /\ event_listeners' = event_listeners
             /\ published' = published]_vars

\* C19 witness: in one invocation, after one discover(), a poll() failed
\* and the next poll() returned a reply whose device is in the table and
\* was announced.
C19_Witness ==
    /\ worker["discovery"].invocations = 1
    /\ worker["discovery"].setup_calls = 1
    /\ worker["discovery"].trace = <<"parse_error", "ok">>
    /\ Cardinality(DOMAIN devices) = 1
    /\ Len(published) = 1
    /\ published[1].kind = "DeviceDiscovered"

\* C20 as stated: for every packet p, parse(encode(p)) succeeds and equals
\* p on command_type, command and command_data.
C20_Original ==
    codec.stage = "parsed" =>
        /\ codec.parsed.ok
        /\ codec.parsed.val[1] = codec.packet

\* C20 amended: parse(encode(p)) succeeds with the command_type and the
\* command of p, and with the command_data of p when that is absent or
\* holds at least one byte; a payload that is present and empty comes back
\* absent.
C20_ParseOfEncode ==
    codec.stage = "parsed" =>
        /\ codec.parsed.ok
        /\ codec.parsed.val[1].command_type = codec.packet.command_type
        /\ codec.parsed.val[1].command = codec.packet.command
        /\ codec.parsed.val[1].command_data =
             (IF codec.packet.command_data = <<<<>>>> THEN <<>> ELSE codec.packet.command_data)

\* C20 witness: the packet with the largest type and command and a payload
\* of three bytes was encoded and parsed back equal.
C20_Witness ==
    /\ codec.stage = "parsed"
    /\ codec.packet.command_type = 255
    /\ codec.packet.command = 65535
    /\ codec.packet.command_data = <<<<255, 170, 170>>>>
    /\ Len(codec.frame) = 13
    /\ codec.parsed.ok
    /\ codec.parsed.val[1] = codec.packet

\* C21 as stated: parse(encode(p)) has command_data None when p has None,
\* and Some(b) when p has Some(b), the empty b included.
C21_Original ==
    codec.stage = "parsed" =>
        /\ codec.parsed.ok
        /\ (~IsSome(codec.packet.command_data) => ~IsSome(codec.parsed.val[1].command_data))
        /\ (IsSome(codec.packet.command_data) =>
               /\ IsSome(codec.parsed.val[1].command_data)
               /\ Unwrap(codec.parsed.val[1].command_data) = Unwrap(codec.packet.command_data))

\* C21 amended: parse(encode(p)) has command_data None when p has None or
\* Some of zero bytes, and Some(b) with the bytes of b, which are the bytes
\* of the frame after the header, when p has Some(b) with b not empty.
C21_PayloadOfParseOfEncode ==
    codec.stage = "parsed" =>
        LET sent == codec.packet.command_data
            got == codec.parsed.val[1].command_data
        IN  /\ codec.parsed.ok
            /\ (~IsSome(sent) => ~IsSome(got))
            /\ (IsSome(sent) /\ Len(Unwrap(sent)) = 0 => ~IsSome(got))
            /\ (IsSome(sent) /\ Len(Unwrap(sent)) > 0 =>
                   /\ IsSome(got)
                   /\ Len(Unwrap(got)) = Len(Unwrap(sent))
                   /\ \A i \in 1..Len(Unwrap(sent)) :
                        /\ Unwrap(got)[i] = Unwrap(sent)[i]
                        /\ codec.frame[HEADER_LEN + i] = Unwrap(sent)[i])

\* C21 witness: a packet with no payload came back with none, after a
\* frame of the header alone.
C21_Witness ==
    /\ codec.stage = "parsed"
    /\ codec.packet.command_data = None
    /\ Len(codec.frame) = HEADER_LEN
    /\ codec.parsed.ok
    /\ codec.parsed.val[1].command_data = None

\* C21 witness of the payload with one zero byte, which came back present.
C21_WitnessZeroByte ==
    /\ codec.stage = "parsed"
    /\ codec.packet.command_data = Some(<<0>>)
    /\ codec.parsed.ok
    /\ codec.parsed.val[1].command_data = Some(<<0>>)

\* C22: Packet::parse fails on fewer than ten bytes and when the length
\* declared in bytes 8,9 (high byte first) plus ten is not the input's
\* length; otherwise it succeeds whatever bytes 0, 1, 5, 6, 7 are, with
\* command_type byte 2, command bytes 3,4 high byte first, and as payload
\* None for a declared length of zero, else the bytes after the header,
\* which are as many as declared.
C22_ParseOfFrame ==
    codec.stage = "parsed" /\ codec.packet = NoPacket =>
        LET f == codec.frame
            got == codec.parsed.val[1]
        IN  IF Len(f) < 10 THEN ~codec.parsed.ok
            ELSE IF 256 * f[9] + f[10] + 10 # Len(f) THEN ~codec.parsed.ok
            ELSE /\ codec.parsed.ok
                 /\ got.command_type = f[3]
                 /\ got.command = 256 * f[4] + f[5]
                 /\ (256 * f[9] + f[10] = 0 => got.command_data = <<>>)
                 /\ (256 * f[9] + f[10] > 0 =>
                        /\ Len(got.command_data) = 1
                        /\ Len(got.command_data[1]) = 256 * f[9] + f[10]
                        /\ \A i \in 1..(Len(f) - 10) : got.command_data[1][i] = f[10 + i])

\* C22 witness: the frame of parse_test, whose bytes 5, 6, 7 are 1, 0, 0,
\* was parsed to the packet of type 2, command 14 and payload "0".
C22_Witness ==
    /\ codec.stage = "parsed"
    /\ codec.packet = NoPacket
    /\ codec.frame = <<170, 170, 2, 0, 14, 1, 0, 0, 0, 1, 48>>
    /\ codec.parsed = Ok(Packet(2, 14, Some(<<48>>)))

\* C23 as stated: for Volume up to 100, the eight verbs of PlayControl,
\* ChargingState, and the strings of DeviceName, PowerMode and
\* FirmwareUpdate, decoding the encoded value succeeds and gives the value.
C23_Original ==
    codec.stage = "decoded" =>
        /\ codec.decoded.ok
        /\ (codec.kind \in {"Volume", "PlayControl", "DeviceName"} =>
              codec.decoded.val = <<codec.value>>)

\* C23 amended: decoding the encoded value gives the value for Volume
\* 0..100 and for every string of DeviceName; the token PlayControl encodes
\* a verb to is refused by PlayControl's decode; ChargingState, PowerMode
\* and FirmwareUpdate encode () to no byte, which ChargingState's decode
\* refuses and the two others decode to the empty string.
C23_DecodeOfEncode ==
    codec.stage = "decoded" =>
        /\ (codec.kind = "Volume" =>
              codec.value <= 100 /\ codec.decoded = Ok(codec.value))
        /\ (codec.kind = "DeviceName" => codec.decoded = Ok(codec.value))
        /\ (codec.kind = "PlayControl" =>
              Len(codec.bytes) >= 4 /\ ~codec.decoded.ok)
        /\ (codec.kind = "ChargingState" => codec.bytes = <<>> /\ ~codec.decoded.ok)
        /\ (codec.kind \in {"PowerMode", "FirmwareUpdate"} =>
              codec.bytes = <<>> /\ codec.decoded = Ok(<<>>))

\* C23 witness: a name of a one-byte, a two-byte and a three-byte character
\* was encoded to six bytes and decoded to itself.
C23_Witness ==
    /\ codec.stage = "decoded"
    /\ codec.kind = "DeviceName"
    /\ codec.value = <<80, 233, 8364>>
    /\ codec.bytes = <<80, 195, 169, 226, 130, 172>>
    /\ codec.decoded = Ok(<<80, 233, 8364>>)

\* C23 witness of Volume: 100 was encoded to "100" and decoded to 100.
C23_WitnessVolume ==
    /\ codec.stage = "decoded"
    /\ codec.kind = "Volume"
    /\ codec.value = 100
    /\ codec.bytes = <<49, 48, 48>>
    /\ codec.decoded = Ok(100)

\* C24: Volume's encode of a value above 100 ends with an error value and
\* no payload; it does not abort its caller.
C24_VolumeEncodeReturnsError ==
    (codec.kind = "Volume" /\ codec.value > 100 /\ codec.stage # "value") =>
        /\ codec.stage = "error"
        /\ codec.bytes = <<>>

\* The datagram of the state has each of the ten headers, PORT and IPAddr
\* with values that parse.
HasTenHeaders ==
    /\ \A i \in 1..10 : \E j \in 1..Len(codec.input.headers) :
         codec.input.headers[j].name = TestHeaders[i].name
    /\ \A j \in 1..Len(codec.input.headers) :
         /\ (codec.input.headers[j].name = HeaderNames.PORT =>
               codec.input.headers[j].value \in GoodPortValues)
         /\ (codec.input.headers[j].name = HeaderNames.IPAddr =>
               codec.input.headers[j].value \in GoodAddrValues)

\* C27: DiscoveryReply::parse gives an error when the method is not NOTIFY,
\* when the path is not *, when one of the ten headers, matched with its
\* case, is absent, when PORT is not a decimal of 16 bits, when IPAddr is
\* not an IP literal.
C27_BadDatagramIsError ==
    codec.stage = "reply" =>
        ((codec.input.start_line \notin NotifyStartLines \/ ~HasTenHeaders)
            => ~codec.reply.ok)

\* C27 witness: an M-SEARCH request with the ten headers and the blank line
\* was parsed to an error.
C27_Witness ==
    /\ codec.stage = "reply"
    /\ codec.input.start_line = <<77, 45, 83, 69, 65, 82, 67, 72, 32, 42, 32, 72, 84, 84, 80, 47, 49, 46, 49, 13, 10>>
    /\ codec.input.headers = TestHeaders
    /\ codec.input.ending = "blank_line"
    /\ ~codec.reply.ok

\* C27 witness of the port 65536 in a NOTIFY datagram, parsed to an error.
C27_WitnessPort ==
    /\ codec.stage = "reply"
    /\ codec.input.start_line = BROKEN_NOTIFY_PREFIX
    /\ codec.input.headers = with_value(TestHeaders, "PORT", <<54, 53, 53, 51, 54>>)
    /\ ~codec.reply.ok

\* The reply parse_test expects.
TestReply ==
    [device_name |-> <<68, 101, 118, 105, 99, 101, 32, 78, 97, 109, 101, 95, 57, 57, 57, 57, 45, 72, 48, 48, 50, 48, 48, 48, 48, 45, 48, 55, 45, 49, 50, 51, 52, 53>>,
     device_id |-> <<48, 49, 50, 51, 52, 53, 54, 55, 56, 57, 97, 98>>,
     device_state |-> <<70, 44, 83, 44, 80>>,
     port |-> 7777,
     zone_id |-> <<>>,
     creator |-> <<>>,
     ip_address |-> <<192, 168, 178, 75>>,
     color_code |-> <<50, 48, 48, 51>>,
     firmware_version |-> <<56, 48, 57, 59, 49, 44, 49, 59, 49, 44, 49>>,
     stereo_pair_id |-> <<>>]

\* C28: a NOTIFY datagram with the ten headers of parse_test, each on a
\* whole line, with or without the space on its start line, parses to the
\* reply of parse_test, however many unknown headers are added to it and
\* wherever.
C28_UnknownHeadersIgnored ==
    (/\ codec.stage = "reply"
     /\ codec.input.start_line \in {BROKEN_NOTIFY_PREFIX, FIXED_NOTIFY_PREFIX}
     /\ codec.input.ending # "open_value"
     /\ SelectSeq(codec.input.headers, LAMBDA h : h.name # HeaderNames.HOST) = TestHeaders)
        => codec.reply = Ok(TestReply)

\* A datagram of parse_test's headers and at most six unknown ones was
\* parsed to the reply of parse_test.
C28_SixUnknownHeadersParse ==
    /\ codec.stage = "reply"
    /\ codec.input.start_line = BROKEN_NOTIFY_PREFIX
    /\ Len(codec.input.headers) = 16
    /\ SelectSeq(codec.input.headers, LAMBDA h : h.name # HeaderNames.HOST) = TestHeaders
    /\ codec.input.ending = "eof"
    /\ codec.reply = Ok(TestReply)

\* The events published for the device id, in the order of publication.
EventsOf(id) == SelectSeq(published, LAMBDA e : e.device.id = id)

\* C30: the record of each device in the table is the snapshot of the last
\* event published for it, in every state, the mutex free or not; and a
\* step that inserts or changes a record publishes in the same step one
\* event carrying the record as the step leaves it, every event published
\* being the record of its device after the step.
C30_TableMatchesLastEvent ==
    /\ [](\A id \in DeviceIds :
            IF id \in DOMAIN devices
            THEN /\ EventsOf(id) # <<>>
                 /\ EventsOf(id)[Len(EventsOf(id))].device = devices[id]
            ELSE EventsOf(id) = <<>>)
    /\ [][/\ \A id \in DOMAIN devices' :
               (id \notin DOMAIN devices \/ devices'[id] # devices[id]) =>
                   /\ Len(published') = Len(published) + 1
                   /\ published'[Len(published')].device = devices'[id]
          /\ published' # published =>
               /\ Len(published') = Len(published) + 1
               /\ SubSeq(published', 1, Len(published)) = published
               /\ published'[Len(published')].device.id \in DOMAIN devices'
               /\ devices'[published'[Len(published')].device.id]
                    = published'[Len(published')].device]_vars

\* C30 witness: the mutex is free, the device was discovered and then
\* updated by a packet, and its record is the snapshot of the second event,
\* with the volume 3.
C30_Witness ==
    /\ last.op = "idle"
    /\ Len(published) = 2
    /\ published[1] = DeviceDiscovered(Device_new("test-device", "192.168.10.10"))
    /\ published[2].kind = "DeviceUpdated"
    /\ published[2].device.volume = Some(3)
    /\ devices["test-device"] = published[2].device

\* The records of the fake device: as discovered, with the name of the
\* fake's reply, with its volume as well.
FakeDiscovered == Device_new("test-device", "192.168.10.10")
FakeNamed == [FakeDiscovered EXCEPT !.name = Some(S_PRETTY_NAME)]
FakeNamedWithVolume == [FakeNamed EXCEPT !.volume = Some(35)]
FakeEvents ==
    <<DeviceDiscovered(FakeDiscovered), DeviceUpdated(FakeNamed),
      DeviceUpdated(FakeNamedWithVolume)>>

\* C25: a subscriber that listened before the fake discovery reply was sent
\* and calls fetch_info on DeviceDiscovered, no other thread calling the
\* API, sees at any time a prefix of: DeviceDiscovered, a DeviceUpdated with
\* the name "Pretty name" and no volume, a DeviceUpdated with that name and
\* the volume 35, however the replies to its seven fetches, sent one by
\* one, and the command reply thread interleave; and it comes to see all
\* three.
C25_FakeFetchTwoUpdates ==
    /\ []((fake.early /\ fake.api_calls = 0) =>
            /\ Len(inbox[1]) <= 3
            /\ inbox[1] = SubSeq(FakeEvents, 1, Len(inbox[1])))
    /\ ((fake.early /\ fake.api_calls = 0) ~>
            ((inbox[1] = FakeEvents /\ fake.app_seen = 3) \/ fake.api_calls > 0))

\* C25 witness: the subscriber listened early, nothing else was called, its
\* fetch_info has sent its seven fetches and returned, the three events are
\* in its channel and taken, and no reply is left on a port or in a thread.
C25_Witness ==
    /\ fake.early
    /\ fake.api_calls = 0
    /\ inbox[1] = FakeEvents
    /\ fake.app_seen = 3
    /\ worker["app"].pc = "events"
    /\ Len(fake.stream) = Len(FetchInfoCommands)
    /\ \A port \in FakePorts : fake.queue[port] = <<>>
    /\ \A t \in Workers : worker[t].pc = "receive"
    /\ devices["test-device"] = FakeNamedWithVolume

\* C25 witness of the interleaving: the command reply thread has taken the
\* reply with the name from its port and waits for the mutex, while the
\* subscriber's fetch_info, which holds it, has still to send the fetch of
\* the volume.
C25_WitnessBetweenSends ==
    /\ fake.early
    /\ fake.api_calls = 0
    /\ worker["app"].op = "fetch_info"
    /\ worker["app"].pc = "locked"
    /\ worker["app"].todo # <<>>
    /\ worker["app"].todo[1] = Command_fetch(Volume_GET_COMMAND_ID)
    /\ worker["command reply"].pc = "lock"
    /\ worker["command reply"].cur.packet.command = DeviceName_SET_COMMAND_ID
    /\ inbox[1] = SubSeq(FakeEvents, 1, 1)

\* The payloads of the PlayControl sets handed to the sender, and the
\* notifications of the play status on port 3333, both in order.
PlayControlSets ==
    SelectSeq(fake.sent, LAMBDA p : p.command_type = 2 /\ p.command = 40)
PlayNotifications ==
    SelectSeq(fake.queue[NOTIF_RECV_PORT], LAMBDA r : r.packet.command = 51)

\* The playing bit after the sets: false at first, PLAY sets it, STOP and
\* PAUSE clear it, TOGGL flips it, any other payload, or none, leaves it.
RECURSIVE PlayingAfter(_)
PlayingAfter(sets) ==
    IF sets = <<>> THEN FALSE
    ELSE LET data == sets[Len(sets)].command_data
             verb == IF IsSome(data) THEN Unwrap(data) ELSE <<>>
             before == PlayingAfter(SubSeq(sets, 1, Len(sets) - 1))
         IN  IF verb = <<80, 76, 65, 89>> THEN TRUE
             ELSE IF verb = <<83, 84, 79, 80>> \/ verb = <<80, 65, 85, 83, 69>> THEN FALSE
             ELSE IF verb = <<84, 79, 71, 71, 76>> THEN ~before
             ELSE before

\* C26: the playing bit is false at first and follows the verbs of the
\* PlayControl sets; the i-th set put exactly one notification of command
\* 51 on port 3333, from the device's address, whose payload is '0' when
\* the bit is true after that set and '1' otherwise; nothing else is on a
\* port.
C26_PlayingBitFollowsVerbs ==
        /\ fake.playing.value = PlayingAfter(PlayControlSets)
        /\ Len(PlayNotifications) = Len(PlayControlSets)
        /\ fake.queue[NOTIF_RECV_PORT] = PlayNotifications
        /\ fake.queue[CMD_RESP_PORT] = <<>>
        /\ \A i \in 1..Len(PlayControlSets) :
             /\ PlayNotifications[i].from = [ip |-> "192.168.10.10", port |-> 3333]
             /\ PlayNotifications[i].packet.command_type = 2
             /\ PlayNotifications[i].packet.command_data =
                  <<<<IF PlayingAfter(SubSeq(PlayControlSets, 1, i)) THEN 48 ELSE 49>>>>

\* C26 witness: set(Play), set(Toggle), set(Toggle) were sent and the
\* notifications on port 3333 carry "0", "1", "0".
C26_Witness ==
    /\ Len(fake.sent) = 3
    /\ fake.sent[1].command_data = <<<<80, 76, 65, 89>>>>
    /\ fake.sent[2].command_data = <<<<84, 79, 71, 71, 76>>>>
    /\ fake.sent[3].command_data = <<<<84, 79, 71, 71, 76>>>>
    /\ Len(fake.queue[NOTIF_RECV_PORT]) = 3
    /\ fake.queue[NOTIF_RECV_PORT][1].packet.command_data = <<<<48>>>>
    /\ fake.queue[NOTIF_RECV_PORT][2].packet.command_data = <<<<49>>>>
    /\ fake.queue[NOTIF_RECV_PORT][3].packet.command_data = <<<<48>>>>
    /\ fake.playing.value

\* The PlayControl sets handed to the sender so far carry a payload.
SetsWithPayload ==
    \A i \in 1..Len(PlayControlSets) : IsSome(PlayControlSets[i].command_data)

\* The places of the PlayControl sets handed to the sender before the first
\* one without payload.
SetsBeforePanic ==
    {i \in 1..Len(PlayControlSets) :
        \A j \in 1..i : IsSome(PlayControlSets[j].command_data)}

\* C26, as far as the code goes: as long as every set carries a payload the
\* bit follows the verbs and each set has its notification; the first set
\* without payload panics and poisons the mutex of the bit, and from then
\* on the bit stays, no set puts a notification on port 3333, and the
\* notifications are those of the sets before it.
C26_UntilSetWithoutPayload ==
    /\ SetsWithPayload => (C26_PlayingBitFollowsVerbs /\ ~fake.playing.poisoned)
    /\ ~SetsWithPayload =>
          /\ fake.playing.poisoned
          /\ fake.playing.value
                = PlayingAfter(SubSeq(PlayControlSets, 1, Cardinality(SetsBeforePanic)))
          /\ Len(fake.queue[NOTIF_RECV_PORT]) = Cardinality(SetsBeforePanic)

\* C26: a set without payload was handed to the sender, then set(Play): the
\* bit is still false and no notification is on port 3333.
C26_SetAfterPanic ==
    /\ Len(fake.sent) = 2
    /\ fake.sent[1] = Packet(COMMAND_TYPE_SET, PlayControl_SET_COMMAND_ID, None)
    /\ fake.sent[2].command_data = <<<<80, 76, 65, 89>>>>
    /\ fake.playing.poisoned
    /\ ~fake.playing.value
    /\ fake.queue[NOTIF_RECV_PORT] = <<>>

\* C29: no send through the fake sender aborts its caller, so the manager's
\* mutex is never poisoned by a send made under it.
C29_SendNeverAborts == ~fake.poisoned

\* C32: no worker function returns success: each of the three functions is
\* before its setup call, in its loop, or has returned an error that its
\* supervisor prints and sleeps on; the supervisor's unreachable!() arm is
\* never taken.
C32_WorkersNeverReturnOk ==
    \A w \in Workers :
        /\ worker[w].pc \in {"start", "setup", "loop", "failed", "sleeping"}
        /\ worker[w].pc \notin {"returned", "unreachable"}

\* C32 witness: the discovery function met a poll() error and is still in
\* its loop; the notification function returned the error of its setup and
\* its supervisor sleeps; the command reply function met a frame that does
\* not parse and is still in its loop.
C32_Witness ==
    /\ worker["discovery"].pc = "loop"
    /\ worker["discovery"].trace # <<>>
    /\ worker["discovery"].trace[1] \in ReceiveErrors
    /\ worker["notification"].pc = "sleeping"
    /\ worker["notification"].failures = 1
    /\ worker["command reply"].pc = "loop"
    /\ worker["command reply"].trace = <<"parse_error">>

\* C33: whatever the command id, format_reply hands the packet only to a
\* kind whose GET_REPLY_COMMAND_ID is the packet's command, and
\* format_notification only to a kind whose NOTIFY_ID is the packet's
\* command, so that no assert_eq! fails; an id that is no kind's is
\* formatted as a debug dump.
C33_FormatRoutesByMatchingId ==
    codec.stage = "printed" =>
        LET id_of(kind) == IF codec.port = CMD_RESP_PORT THEN GET_REPLY_COMMAND_ID(kind)
                           ELSE NOTIFY_ID(kind)
        IN  /\ ~codec.text.panic
            /\ codec.text.formatted_by \in CommandNames \cup {"debug"}
            /\ codec.text.formatted_by \in CommandNames =>
                  id_of(codec.text.formatted_by) = codec.packet.command
            /\ (\A kind \in CommandNames : id_of(kind) # codec.packet.command) =>
                  codec.text.formatted_by = "debug"

\* C33 witness: a reply with the battery level's reply id 257, which is
\* not its fetch id, was formatted by the battery level's formatter.
C33_Witness ==
    /\ codec.stage = "printed"
    /\ codec.port = CMD_RESP_PORT
    /\ codec.packet.command = 257
    /\ codec.text = [panic |-> FALSE, formatted_by |-> "Battery level"]

\* C33 witness of the other route and of the dump: a notification with the
\* battery level's fetch id 256 was printed as a debug dump.
C33_WitnessDump ==
    /\ codec.stage = "printed"
    /\ codec.port = NOTIF_RECV_PORT
    /\ codec.packet.command = 256
    /\ codec.text.formatted_by = "debug"

\* C34: in the sequence of the manager's publications a DeviceUpdated of a
\* device id comes after the DeviceDiscovered of that id; the step that
\* inserts an id publishes its DeviceDiscovered, and the step that
\* publishes a DeviceUpdated found its device in the table.
C34_DiscoveredBeforeUpdated ==
    /\ [](\A i \in 1..Len(published) :
            published[i].kind = "DeviceUpdated" =>
                \E j \in 1..(i - 1) :
                    /\ published[j].kind = "DeviceDiscovered"
                    /\ published[j].device.id = published[i].device.id)
    /\ [][/\ \A id \in DOMAIN devices' \ DOMAIN devices :
               published' = Append(published, DeviceDiscovered(devices'[id]))
          /\ (published' # published
               /\ published'[Len(published')].kind = "DeviceUpdated") =>
                 published'[Len(published')].device.id \in DOMAIN devices]_vars

\* C34 witness: the handler of the command-reply port has just published
\* the DeviceUpdated of the second device, which was discovered before.
C34_Witness ==
    /\ last.op = "handle_command_response"
    /\ Len(published) = 2
    /\ published[1].kind = "DeviceDiscovered"
    /\ published[1].device.id = "0123456789ab"
    /\ published[2].kind = "DeviceUpdated"
    /\ published[2].device.id = "0123456789ab"
    /\ published[2].device.play_status # None

\* C35: when the send of a notification's ack fails, the notification is
\* not applied: the handler returns the error, the device table, the
\* subscriber list, the channels and the history of publications are as
\* before, and the notification worker stays in its loop, in the same
\* invocation; the handler returned, the loop prints the error and is ready
\* for the next packet.
C35_FailedAckDropsNotification ==
    [][/\ worker'["notification"].send_failures # worker["notification"].send_failures
          => /\ worker'["notification"].send_failures
                  = worker["notification"].send_failures + 1
             /\ worker'["notification"].handler_result = Some("send_error")
             /\ devices' = devices
             /\ event_listeners' = event_listeners
             /\ inbox' = inbox
             /\ published' = published
             /\ worker'["notification"].pc = "loop"
             /\ worker'["notification"].invocations = worker["notification"].invocations
             /\ worker'["notification"].failures = worker["notification"].failures
       /\ (/\ worker["notification"].handler_result = Some("send_error")
           /\ worker'["notification"] # worker["notification"])
          => /\ worker'["notification"].handler_result = None
             /\ worker'["notification"].trace
                  = Append(worker["notification"].trace, "send_error")
             /\ worker'["notification"].loop_logs
                  = worker["notification"].loop_logs + 1
             /\ worker'["notification"].pc = "loop"
             /\ worker'["notification"].invocations = worker["notification"].invocations
             /\ worker'["notification"].failures = worker["notification"].failures]_vars

\* C35 witness: a device was registered; the ack of a notification could
\* not be sent, the device has no volume, nothing but its discovery was
\* published, and the worker is in its loop.
C35_Witness ==
    /\ worker["discovery"].trace = <<"ok">>
    /\ worker["notification"].send_failures = 1
    /\ worker["notification"].trace = <<"send_error">>
    /\ worker["notification"].loop_logs = 1
    /\ worker["notification"].pc = "loop"
    /\ \E id \in DOMAIN devices : devices[id].volume = None
    /\ Len(published) = 1

\* C36: a subscriber holds as many events as were published since its
\* listen() and none from before: a device whose DeviceDiscovered was
\* published before the subscriber's listen() is not announced to it by any
\* DeviceDiscovered, while every DeviceUpdated published after the listen()
\* is in its channel, at its place.
C36_NoReplayBeforeListen ==
    \A c \in receivers :
        /\ Len(inbox[c]) = Len(published) - listen_at[c]
        /\ \A j \in 1..listen_at[c] :
              published[j].kind = "DeviceDiscovered" =>
                  \A i \in 1..Len(inbox[c]) :
                      ~(/\ inbox[c][i].kind = "DeviceDiscovered"
                        /\ inbox[c][i].device.id = published[j].device.id)
        /\ \A j \in (listen_at[c] + 1)..Len(published) :
              published[j].kind = "DeviceUpdated" =>
                  inbox[c][j - listen_at[c]] = published[j]

\* C36 witness: a device was registered before the only subscriber
\* listened; the subscriber holds the device's later update and nothing
\* else.
C36_Witness ==
    /\ Cardinality(receivers) = 1
    /\ \E c \in receivers :
          /\ listen_at[c] = 1
          /\ published[1].kind = "DeviceDiscovered"
          /\ Len(published) = 2
          /\ published[2].kind = "DeviceUpdated"
          /\ published[2].device.id = published[1].device.id
          /\ inbox[c] = <<published[2]>>

\* The devices of the table whose record a handler changed.
Mutated == {id \in DOMAIN devices : devices[id] # last.before[id]}

\* The devices that had the sender's address when the packet arrived.
SameAddr == {id \in DOMAIN last.before : last.before[id].addr = last.ip}

\* C38: a packet received by the notification worker or by the command
\* reply worker changes at most one record and publishes at most one event;
\* when several devices have the sender's address and the packet has a
\* known id and decodes, one event is published, it is the DeviceUpdated of
\* one of these devices, whose record is the event's snapshot, and every
\* other record is as it was.
C38_OnePacketOneDevice ==
    last.op \in {"handle_command_response", "handle_notification"} =>
        /\ Cardinality(Mutated) <= 1
        /\ Len(last.events) <= 1
        /\ (/\ Cardinality(SameAddr) >= 2
            /\ last.packet.command \in UpdateCommands
            /\ last.result = "ok") =>
               /\ Len(last.events) = 1
               /\ last.events[1].kind = "DeviceUpdated"
               /\ last.events[1].device.id \in SameAddr
               /\ devices[last.events[1].device.id] = last.events[1].device
               /\ \A id \in DOMAIN devices \ {last.events[1].device.id} :
                     devices[id] = last.before[id]

\* C38 witness: two devices share the sender's address, a volume
\* notification was decoded, and the volume of one of them only is set.
C38_Witness ==
    /\ last.op = "handle_notification"
    /\ last.result = "ok"
    /\ Cardinality(SameAddr) = 2
    /\ last.packet.command = Volume_NOTIFY_ID
    /\ Cardinality(Mutated) = 1
    /\ \E id \in SameAddr : devices[id].volume = Some(3)
    /\ \E id \in SameAddr : devices[id].volume = None

\* The packet with an empty payload in place of its payload.
WithEmptyPayload(packet) == [packet EXCEPT !.command_data = Some(<<>>)]

\* C39: a packet with a known command id and no payload, from the address
\* of a known device (and acknowledged, when it is a notification), is
\* handled as the same packet with an empty payload would be: a device
\* name sets the name to the empty string and publishes DeviceUpdated; any
\* other known id is a decode error, the table is as it was and nothing is
\* published.
C39_NoPayloadIsEmptyPayload ==
    (/\ last.op \in {"handle_command_response", "handle_notification"}
     /\ last.packet.command \in UpdateCommands
     /\ last.packet.command_data = None
     /\ SameAddr # {}
     /\ last.result # "send_error") =>
        /\ \A id \in SameAddr :
              handle_device_update(last.before[id], last.packet)
                  = handle_device_update(last.before[id], WithEmptyPayload(last.packet))
        /\ IF last.packet.command = DeviceName_GET_REPLY_COMMAND_ID
           THEN /\ last.result = "ok"
                /\ Len(last.events) = 1
                /\ last.events[1].kind = "DeviceUpdated"
                /\ last.events[1].device.name = Some("")
                /\ devices[last.events[1].device.id].name = Some("")
           ELSE /\ last.result = "decode_error"
                /\ last.events = <<>>
                /\ devices = last.before

\* C39 witness: a device name reply without payload named a device "".
C39_Witness ==
    /\ last.op = "handle_command_response"
    /\ last.packet = Packet(COMMAND_TYPE_SET, DeviceName_GET_REPLY_COMMAND_ID, None)
    /\ \E id \in SameAddr : devices[id].name = Some("") /\ last.before[id].name = None
    /\ Len(last.events) = 1

\* C39, the other case: a volume notification without payload was
\* acknowledged and failed to decode.
C39_WitnessDecodeError ==
    /\ last.op = "handle_notification"
    /\ last.packet = Packet(COMMAND_TYPE_SET, Volume_NOTIFY_ID, None)
    /\ SameAddr # {}
    /\ Len(last.sent) = 1 /\ last.sent[1].ok
    /\ last.result = "decode_error"

\* C31: no worker holds the manager's mutex while it is blocked in
\* receive_packet() or poll(); the thread that holds the mutex is never
\* blocked, so no state is a deadlock; and every thread that calls
\* lock().unwrap(), workers, subscriber and caller alike, comes to hold the
\* guard.
C31_NoDeadlockEveryCallerAcquires ==
    /\ [](\A t \in Workers : worker[t].pc = "receive" => fake.owner # t)
    /\ [](fake.owner # "none" => worker[fake.owner].pc = "locked")
    /\ \A t \in LockThreads : (worker[t].pc = "lock") ~> (fake.owner = t)

\* C31, as far as the code goes: a thread that asks for the mutex comes to
\* hold it unless a thread has panicked holding it.
C31_AcquiresWhileNotPoisoned ==
    /\ [](\A t \in Workers : worker[t].pc = "receive" => fake.owner # t)
    /\ [](fake.owner # "none" => worker[fake.owner].pc = "locked")
    /\ \A t \in LockThreads :
          (worker[t].pc = "lock") ~> (fake.owner = t \/ fake.poisoned)

\* C31: the subscriber asked for the mutex after the caller's send_packet
\* had panicked under it, and its lock().unwrap() panicked.
C31_LockPanicked ==
    /\ fake.poisoned
    /\ worker["caller"].pc = "panicked"
    /\ worker["app"].pc = "panicked"
    /\ worker["app"].op = "listen"

\* The places in the stream of the packets of one API call.
SentBy(call) == {i \in 1..Len(fake.stream) : fake.stream[i].call = call}

\* The calls of fetch_info that have sent something.
FetchInfoCalls ==
    {fake.stream[i].call : i \in {k \in 1..Len(fake.stream) :
                                      fake.stream[k].op = "fetch_info"}}

\* C37: in the stream of the packets given to the send socket, the packets
\* of one fetch_info call are neighbours, in the order of its statements:
\* the n-th of them is the n-th fetch and stands n - 1 places after the
\* first, so no ack and no packet of another call stands between them; a
\* call that has returned has sent all seven.
C37_FetchInfoContiguous ==
    \A call \in FetchInfoCalls :
        LET first == CHOOSE i \in SentBy(call) : \A j \in SentBy(call) : i <= j
        IN  /\ SentBy(call) = first..(first + Cardinality(SentBy(call)) - 1)
            /\ Cardinality(SentBy(call)) <= Len(FetchInfoCommands)
            /\ \A i \in SentBy(call) :
                  /\ fake.stream[i].packet = Command_fetch(FetchInfoCommands[i - first + 1])
                  /\ fake.stream[i].to = SocketAddr(FAKE_DEVICE_ADDR, CMD_SEND_PORT)
            /\ (\A t \in LockThreads : worker[t].call # call) =>
                  Cardinality(SentBy(call)) = Len(FetchInfoCommands)

\* C37 witness: the subscriber's fetch_info has sent four of its fetches
\* and holds the mutex, while the notification thread, which has received
\* the notification of the caller's set_volume, waits for the mutex to
\* send its ack.
C37_Witness ==
    /\ worker["app"].op = "fetch_info"
    /\ worker["app"].pc = "locked"
    /\ Len(worker["app"].todo) = 3
    /\ worker["notification"].pc = "lock"
    /\ Len(fake.stream) = 5
    /\ \E i \in 1..Len(fake.stream) : fake.stream[i].op = "set_volume"

\* C37, afterwards: the seven fetches and the ack are in the stream.
C37_WitnessDone ==
    /\ worker["app"].pc = "events"
    /\ \E call \in FetchInfoCalls : Cardinality(SentBy(call)) = Len(FetchInfoCommands)
    /\ \E i \in 1..Len(fake.stream) : fake.stream[i].to.port = NOTIF_ACK_PORT

\* The set_volume packets given to the sender, the volume notifications the
\* fake device put on port 3333, the notifications handled and the acks
\* sent, each in order.
VolumeSets == SelectSeq(fake.stream, LAMBDA e : e.op = "set_volume")
VolumeNotifications ==
    SelectSeq(fake.replied, LAMBDA r : /\ r.from.port = NOTIF_RECV_PORT
                                       /\ r.packet.command = Volume_NOTIFY_ID)
NotificationsHandled == SelectSeq(fake.handled, LAMBDA h : h.by = "notification")
Acks == SelectSeq(fake.stream, LAMBDA e : e.to.port = NOTIF_ACK_PORT)

\* The fetches the fake device answers.
AnsweredFetches ==
    SelectSeq(fake.stream,
              LAMBDA e : /\ e.packet.command_type = COMMAND_TYPE_FETCH
                         /\ e.packet.command \in {DeviceName_GET_COMMAND_ID,
                                                   Volume_GET_COMMAND_ID})

\* Each set_volume has had its notification, its ack and its event, and
\* nothing is left to receive.
VolumeQuiet ==
    /\ Len(NotificationsHandled) = Len(VolumeSets)
    /\ fake.queue[NOTIF_RECV_PORT] = <<>>
    /\ worker["notification"].pc = "receive"

\* C40: on the fake back-ends the k-th set_volume(id, v) that reaches the
\* sender puts exactly one volume notification on port 3333, carrying its
\* payload; the k-th notification handled sends one ack to port 3334 and
\* publishes one DeviceUpdated whose volume is min(v, 100); the fake
\* device answers set_volume and two of the fetches and nothing else, an
\* ack in particular; and the run comes to rest with every set_volume
\* notified, acknowledged and published.
C40_SetVolumeRoundTrip ==
    /\ [](/\ Len(VolumeNotifications) = Len(VolumeSets)
          /\ \A k \in 1..Len(VolumeSets) :
                VolumeNotifications[k].packet.command_data
                    = VolumeSets[k].packet.command_data
          /\ Len(fake.replied) = Len(VolumeSets) + Len(AnsweredFetches)
          /\ Len(NotificationsHandled) <= Len(VolumeSets)
          /\ Len(Acks) = Len(NotificationsHandled)
          /\ \A k \in 1..Len(NotificationsHandled) :
                /\ Acks[k].by = "notification"
                /\ Acks[k].to = SocketAddr(FAKE_DEVICE_ADDR, NOTIF_ACK_PORT)
                /\ Len(NotificationsHandled[k].events) = 1
                /\ NotificationsHandled[k].events[1].kind = "DeviceUpdated"
                /\ NotificationsHandled[k].events[1].device.id = FAKE_DEVICE_ID
                /\ NotificationsHandled[k].events[1].device.volume
                      = Some(IF VolumeSets[k].volume > 100 THEN 100
                             ELSE VolumeSets[k].volume))
    /\ <>[]VolumeQuiet

\* C40 witness: set_volume(101) was called on the discovered device after
\* the subscriber's fetch_info had been answered (volume 35); its
\* notification was acknowledged and published volume 100, and nothing is
\* left on port 3333.
C40_Witness ==
    /\ Len(VolumeSets) = 1
    /\ VolumeSets[1].volume = 101
    /\ VolumeQuiet
    /\ Len(Acks) = 1
    /\ Len(fake.handled) = 4
    /\ fake.handled[3].by = "command reply"
    /\ fake.handled[3].events[1].device.volume = Some(35)
    /\ fake.handled[4].by = "notification"
    /\ NotificationsHandled[1].events[1].device.volume = Some(100)
    /\ devices[FAKE_DEVICE_ID].volume = Some(100)

====
